---- MODULE Spec2Model ----
(***************************************************************************)
(* PE-Fund-Dashboard: the fund status / pipeline state machine             *)
(* (cashflow_pipeline_db.py) and the cashflow event store (cashflow_db.py, *)
(* cashflow_forecast_ui.py, cashflow_ui.py) as state machines over the     *)
(* committed contents of the database.                                     *)
(*                                                                         *)
(* Nullable columns are modelled as sequences: <<>> is SQL NULL / no row,  *)
(* <<v>> is the value v.  Status columns are strings, "NULL" is SQL NULL.  *)
(***************************************************************************)
EXTENDS Integers, Sequences, FiniteSets, TLC

VARIABLES
    funds,      \* fund_id of every row of table funds
    status,     \* funds.status per fund_id
    history,    \* rows of fund_status_history per fund_id, in insertion order
    commit,     \* funds.commitment_amount / commitment_date / unfunded_amount
    meta,       \* row of fund_pipeline_meta per fund_id (UNIQUE(fund_id)), or <<>>
    pending,    \* the two-commit operation (promote_fund, decline_fund) in flight
    last,       \* the most recent pipeline call and how it returned
    cashflows,  \* committed rows of table cashflows
    scenarios,  \* scenario_name of every row of table scenarios
    saving,     \* _save_forecast between its delete and its bulk insert
    ret,        \* the most recent event-store call, its arguments and outcome
    written,    \* per natural key, the record of the most recent write
    wpc,        \* concurrent writers: idle / written (transaction open) / done
    wrow,       \* concurrent writers: the record each one upserts
    commits,    \* concurrent writers: the writers in the order they committed
    rates       \* the rows of table exchange_rates

pipelineVars == <<funds, status, history, commit, meta, pending, last>>

storeVars == <<cashflows, scenarios, saving, ret, written>>

writerVars == <<wpc, wrow, commits>>

fxVars == <<rates>>

vars == <<funds, status, history, commit, meta, pending, last,
          cashflows, scenarios, saving, ret, written, wpc, wrow, commits, rates>>

-----------------------------------------------------------------------------
(* Bounds of the model *)

MaxFunds == 2
MaxHistory == 2

FundIds == 1..MaxFunds

-----------------------------------------------------------------------------
(* Constants of cashflow_pipeline_db.py *)

NULL == "NULL"
Null == <<>>
Some(v) == <<v>>

PIPELINE_STATUSES == {"screening", "due_diligence", "negotiation"}
ACTIVE_STATUSES == {"committed", "active", "harvesting", "closed"}
ALL_STATUSES == PIPELINE_STATUSES \cup ACTIVE_STATUSES \cup {"declined"}

VALID_TRANSITIONS_closed_reopens ==
    [s \in ALL_STATUSES |->
        CASE s = "screening" -> {"due_diligence", "declined"}
          [] s = "due_diligence" -> {"negotiation", "declined"}
          [] s = "negotiation" -> {"committed", "declined"}
          [] s = "committed" -> {"active"}
          [] s = "active" -> {"harvesting", "closed"}
          [] s = "harvesting" -> {"closed"}
          [] s = "declined" -> {"screening"}
          [] s = "closed" -> {}]

\* 'harvesting' may fall back to 'active'
VALID_TRANSITIONS_harvesting_back ==
    [s \in ALL_STATUSES |->
        CASE s = "screening" -> {"due_diligence", "declined"}
          [] s = "due_diligence" -> {"negotiation", "declined"}
          [] s = "negotiation" -> {"committed", "declined"}
          [] s = "committed" -> {"active"}
          [] s = "active" -> {"harvesting"}
          [] s = "harvesting" -> {"closed", "active"}
          [] s = "declined" -> {}
          [] s = "closed" -> {}]

VALID_TRANSITIONS ==
    [s \in ALL_STATUSES |->
        CASE s = "screening" -> {"due_diligence", "declined"}
          [] s = "due_diligence" -> {"negotiation", "declined"}
          [] s = "negotiation" -> {"committed", "declined"}
          [] s = "committed" -> {"active"}
          [] s = "active" -> {"harvesting"}
          [] s = "harvesting" -> {"closed"}
          [] s = "declined" -> {}
          [] s = "closed" -> {}]

(* Inputs of the operations *)
CommitmentAmounts == {100, 250}
CommitmentDates == {1, 2}
Reasons == {<<"r1">>, <<"Kein Grund angegeben">>}
AdminReason == <<"Korrektur">>
NoReason == <<"">>
CreatedReason == <<"Neuer Pipeline-Fonds erstellt">>
Probabilities == {50, 80}

-----------------------------------------------------------------------------
(* Helpers *)

RECURSIVE RowsUpTo(_)
RowsUpTo(n) == IF n = 0 THEN 0 ELSE Len(history[n]) + RowsUpTo(n - 1)

\* number of rows of fund_status_history
HistoryRows == RowsUpTo(MaxFunds)

\* row[0] or 'active'
OldStatus(f) == IF status[f] = NULL THEN "active" ELSE status[f]

\* VALID_TRANSITIONS.get(old_status, [])
ValidNext(old) == IF old \in DOMAIN VALID_TRANSITIONS THEN VALID_TRANSITIONS[old] ELSE {}

\* the fund exists and the target is in VALID_TRANSITIONS[old_status]
CanChange(f, new) == f \in funds /\ new \in ValidNext(OldStatus(f))

HistoryRow(old, new, by, reason) ==
    [old_status |-> old, new_status |-> new, changed_by |-> by, change_reason |-> reason]

Call(op, f, arg, result) == [op |-> op, fund |-> f, arg |-> arg, result |-> result]

NoCommitment == [commitment_amount |-> Null, commitment_date |-> Null, unfunded_amount |-> Null]

\* UPDATE funds SET status without the INSERT INTO fund_status_history
StatusWrite_no_history(f, old, new, by, reason) ==
    /\ status' = [status EXCEPT ![f] = new]
    /\ UNCHANGED history

\* UPDATE funds SET status with the display label of 'closed' instead of its key
StatusWrite_label(f, old, new, by, reason) ==
    /\ status' = [status EXCEPT ![f] = IF new = "closed" THEN "Closed" ELSE new]
    /\ history' = [history EXCEPT ![f] = Append(@, HistoryRow(old, new, by, reason))]

\* UPDATE funds SET status = new; INSERT INTO fund_status_history; conn.commit()
StatusWrite(f, old, new, by, reason) ==
    /\ status' = [status EXCEPT ![f] = new]
    /\ history' = [history EXCEPT ![f] = Append(@, HistoryRow(old, new, by, reason))]

-----------------------------------------------------------------------------
(* Initial state: the schema migrated (ensure_fund_status_column gives every *)
(* fund that existed before the pipeline feature the status 'active'), one   *)
(* such fund present, no pipeline sidecar and no history for it.             *)

InitPipeline ==
    /\ funds = {1}
    /\ status = [f \in FundIds |-> IF f = 1 THEN "active" ELSE NULL]
    /\ history = [f \in FundIds |-> <<>>]
    /\ commit = [f \in FundIds |-> NoCommitment]
    /\ meta = [f \in FundIds |-> Null]
    /\ pending = Null
    /\ last = Call("init", 0, Null, "ok")

\* ensure_cashflows_table / ensure_scenarios_table on an empty database:
\* no cashflow rows, the scenario 'base'.
InitStore ==
    /\ cashflows = {}
    /\ scenarios = {"base"}
    /\ saving = Null
    /\ ret = [op |-> "init", result |-> "ok"]
    /\ written = {}

InitWriters ==
    /\ wpc = [w \in {"A", "B"} |-> "idle"]
    /\ wrow = [w \in {"A", "B"} |-> Null]
    /\ commits = <<>>

\* ensure_exchange_rates_table on an empty database
InitRates == rates = {}

-----------------------------------------------------------------------------
(* Operations of cashflow_pipeline_db.py *)

\* The guarded transition.  A fund that does not exist, or a target that is
\* not in VALID_TRANSITIONS[old_status], raises ValueError before any write.
change_fund_status(f, new, by, reason) ==
    /\ pending = Null
    /\ HistoryRows < MaxHistory
    /\ IF CanChange(f, new)
         THEN /\ StatusWrite(f, OldStatus(f), new, by, reason)
              /\ last' = Call("change_fund_status", f, new, "ok")
         ELSE /\ UNCHANGED <<status, history>>
              /\ last' = Call("change_fund_status", f, new, "ValueError")
    /\ UNCHANGED <<funds, commit, meta, pending>>
    /\ UNCHANGED <<storeVars, writerVars>>
    /\ UNCHANGED fxVars

ForceDiffers_always(old, new) == TRUE

\* if old_status == new_status: return
ForceDiffers(old, new) == old # new

\* The admin override: no adjacency check.
force_change_fund_status(f, new, by, reason) ==
    /\ pending = Null
    /\ HistoryRows < MaxHistory
    /\ IF f \notin funds
         THEN /\ UNCHANGED <<status, history>>
              /\ last' = Call("force_change_fund_status", f, new, "ValueError")
         ELSE IF ForceDiffers(OldStatus(f), new)
           THEN /\ StatusWrite(f, OldStatus(f), new, by, reason)
                /\ last' = Call("force_change_fund_status", f, new, "ok")
           ELSE /\ UNCHANGED <<status, history>>
                /\ last' = Call("force_change_fund_status", f, new, "ok")
    /\ UNCHANGED <<funds, commit, meta, pending>>
    /\ UNCHANGED <<storeVars, writerVars>>
    /\ UNCHANGED fxVars

\* INSERT INTO funds (... 'screening') RETURNING fund_id; INSERT INTO
\* fund_pipeline_meta; INSERT INTO fund_status_history (NULL -> screening).
create_pipeline_fund(probability) ==
    /\ pending = Null
    /\ HistoryRows < MaxHistory
    /\ Cardinality(funds) < MaxFunds
    /\ LET f == Cardinality(funds) + 1 IN
        /\ funds' = funds \cup {f}
        /\ StatusWrite(f, NULL, "screening", "system", CreatedReason)
        /\ meta' = [meta EXCEPT ![f] =
                      Some([probability |-> probability, decline_reason |-> Null])]
        /\ last' = Call("create_pipeline_fund", f, Null, "ok")
    /\ UNCHANGED <<commit, pending>>
    /\ UNCHANGED <<storeVars, writerVars>>
    /\ UNCHANGED fxVars

\* UPDATE fund_pipeline_meta SET ... / INSERT INTO fund_pipeline_meta: the
\* columns not named in an INSERT take their defaults (probability 50).
upsert_pipeline_meta(f, kwargs) ==
    /\ pending = Null
    /\ f \in funds
    /\ LET allowed == {"probability", "decline_reason"}
           updates == [k \in (DOMAIN kwargs) \cap allowed |-> kwargs[k]]
           old == IF meta[f] = Null
                    THEN [probability |-> 50, decline_reason |-> Null]
                    ELSE meta[f][1]
           row == [k \in DOMAIN old |-> IF k \in DOMAIN updates THEN updates[k] ELSE old[k]]
       IN  meta' = IF DOMAIN updates = {} THEN meta ELSE [meta EXCEPT ![f] = Some(row)]
    /\ last' = Call("upsert_pipeline_meta", f, kwargs, "ok")
    /\ UNCHANGED <<funds, status, history, commit, pending>>
    /\ UNCHANGED <<storeVars, writerVars>>
    /\ UNCHANGED fxVars

PromotedReason(amount) == <<"Promoted mit Commitment", amount>>

\* promote_fund, first commit: change_fund_status(conn, fund_id, 'committed', ...).
\* Its ValueError propagates to the caller before anything is written.
promote_fund(f, amount, date, by) ==
    /\ pending = Null
    /\ HistoryRows < MaxHistory
    /\ IF CanChange(f, "committed")
         THEN /\ StatusWrite(f, OldStatus(f), "committed", by, PromotedReason(amount))
              /\ pending' = Some([op |-> "promote_fund", fund |-> f,
                                  amount |-> amount, date |-> date])
              /\ last' = Call("promote_fund", f, amount, "running")
         ELSE /\ UNCHANGED <<status, history, pending>>
              /\ last' = Call("promote_fund", f, amount, "ValueError")
    /\ UNCHANGED <<funds, commit, meta>>
    /\ UNCHANGED <<storeVars, writerVars>>
    /\ UNCHANGED fxVars

\* promote_fund, second commit: UPDATE funds SET commitment_amount,
\* commitment_date, unfunded_amount.
promote_fund_stamp ==
    /\ pending # Null
    /\ pending[1].op = "promote_fund"
    /\ LET p == pending[1] IN
        /\ commit' = [commit EXCEPT ![p.fund] =
                         [commitment_amount |-> Some(p.amount),
                          commitment_date |-> Some(p.date),
                          unfunded_amount |-> Some(p.amount)]]
        /\ last' = Call("promote_fund", p.fund, p.amount, "ok")
    /\ pending' = Null
    /\ UNCHANGED <<funds, status, history, meta>>
    /\ UNCHANGED <<storeVars, writerVars>>
    /\ UNCHANGED fxVars

\* UPDATE fund_pipeline_meta SET decline_reason = %s WHERE fund_id = %s
DeclineReasonWrite(f, reason) ==
    meta' = IF meta[f] = Null
              THEN meta
              ELSE [meta EXCEPT ![f] = Some([@[1] EXCEPT !.decline_reason = reason])]

\* decline_fund, first commit: change_fund_status(conn, fund_id, 'declined', ...).
decline_fund(f, reason, by) ==
    /\ pending = Null
    /\ HistoryRows < MaxHistory
    /\ IF CanChange(f, "declined")
         THEN /\ StatusWrite(f, OldStatus(f), "declined", by, reason)
              /\ pending' = Some([op |-> "decline_fund", fund |-> f, reason |-> reason])
              /\ last' = Call("decline_fund", f, reason, "running")
         ELSE /\ UNCHANGED <<status, history, pending>>
              /\ last' = Call("decline_fund", f, reason, "ValueError")
    /\ UNCHANGED <<funds, commit, meta>>
    /\ UNCHANGED <<storeVars, writerVars>>
    /\ UNCHANGED fxVars

\* decline_fund, second commit.
decline_fund_reason ==
    /\ pending # Null
    /\ pending[1].op = "decline_fund"
    /\ LET p == pending[1] IN
        /\ DeclineReasonWrite(p.fund, p.reason)
        /\ last' = Call("decline_fund", p.fund, p.reason, "ok")
    /\ pending' = Null
    /\ UNCHANGED <<funds, status, history, commit>>
    /\ UNCHANGED <<storeVars, writerVars>>
    /\ UNCHANGED fxVars

\* The database or the connection fails after the first commit of a
\* two-commit operation: the error reaches the caller, the second statement
\* never runs, and what was committed stays committed.
second_commit_fails ==
    /\ pending # Null
    /\ last' = Call(pending[1].op, pending[1].fund, Null, "failed")
    /\ pending' = Null
    /\ UNCHANGED <<funds, status, history, commit, meta>>
    /\ UNCHANGED <<storeVars, writerVars>>
    /\ UNCHANGED fxVars

Init == InitPipeline /\ InitStore /\ InitWriters /\ InitRates

NextPipeline ==
    \/ \E f \in FundIds, s \in ALL_STATUSES : change_fund_status(f, s, "system", NoReason)
    \/ \E f \in FundIds, s \in ALL_STATUSES : force_change_fund_status(f, s, "admin", AdminReason)
    \/ \E p \in Probabilities : create_pipeline_fund(p)
    \/ \E f \in FundIds, p \in Probabilities : upsert_pipeline_meta(f, [k \in {"probability"} |-> p])
    \/ \E f \in FundIds, a \in CommitmentAmounts, d \in CommitmentDates :
          promote_fund(f, a, d, "system")
    \/ promote_fund_stamp
    \/ \E f \in FundIds, r \in Reasons : decline_fund(f, r, "system")
    \/ decline_fund_reason
    \/ second_commit_fails

Spec == Init /\ [][NextPipeline]_vars

-----------------------------------------------------------------------------
(* The fund status state machine: properties *)

\* The adjacency table of the specification (section 4.7), written out as
\* pairs, independently of VALID_TRANSITIONS.
Adjacent(cur, req) ==
    <<cur, req>> \in {<<"screening", "due_diligence">>, <<"screening", "declined">>,
                      <<"due_diligence", "negotiation">>, <<"due_diligence", "declined">>,
                      <<"negotiation", "committed">>, <<"negotiation", "declined">>,
                      <<"committed", "active">>, <<"active", "harvesting">>,
                      <<"harvesting", "closed">>}

\* history'[f] is history[f] with exactly one row old -> new appended
OneRowAppended(f, old, new) ==
    /\ Len(history'[f]) = Len(history[f]) + 1
    /\ SubSeq(history'[f], 1, Len(history[f])) = history[f]
    /\ history'[f][Len(history'[f])].old_status = old
    /\ history'[f][Len(history'[f])].new_status = new
    /\ \A g \in FundIds \ {f} : history'[g] = history[g]

\* C1: for every fund and every pair (current, requested) of the eight
\* statuses, change_fund_status succeeds iff the pair is in the adjacency
\* table; a rejected call raises and leaves status and history unchanged; an
\* accepted call sets the status and appends exactly one row current -> requested.
C1_GuardedTransition ==
    [][(last'.op = "change_fund_status" /\ last'.fund \in funds) =>
         LET f == last'.fund
             req == last'.arg
             cur == status[f]
         IN  /\ (last'.result = "ok") <=> Adjacent(cur, req)
             /\ last'.result # "ok" =>
                   /\ last'.result = "ValueError"
                   /\ status' = status
                   /\ history' = history
             /\ last'.result = "ok" =>
                   /\ status' = [status EXCEPT ![f] = req]
                   /\ OneRowAppended(f, cur, req)]_vars

\* a rejected guarded transition on a fund that an earlier guarded transition moved
C1_Witness ==
    /\ last.op = "change_fund_status"
    /\ last.result = "ValueError"
    /\ last.fund \in funds
    /\ \E i \in 1..Len(history[last.fund]) :
          /\ history[last.fund][i].changed_by = "system"
          /\ history[last.fund][i].old_status # NULL

\* C2: force_change_fund_status moves a fund from any status to any different
\* status whatever the adjacency table says and appends exactly one row
\* old -> new; when the requested status is the current one nothing changes.
C2_ForcedTransition ==
    [][(last'.op = "force_change_fund_status" /\ last'.fund \in funds) =>
         LET f == last'.fund
             req == last'.arg
             cur == status[f]
         IN  /\ last'.result = "ok"
             /\ cur # req =>
                   /\ status' = [status EXCEPT ![f] = req]
                   /\ OneRowAppended(f, cur, req)
             /\ cur = req =>
                   /\ status' = status
                   /\ history' = history]_vars

\* the forced transition active -> closed, which the guarded operation rejects
C2_Witness ==
    /\ last = Call("force_change_fund_status", 1, "closed", "ok")
    /\ status[1] = "closed"
    /\ Len(history[1]) = 1
    /\ history[1][1].old_status = "active"
    /\ history[1][1].new_status = "closed"
    /\ ~Adjacent("active", "closed")

PromotedWith(f, amount) ==
    /\ status[f] = "committed"
    /\ Len(history[f]) > 0
    /\ history[f][Len(history[f])].change_reason = PromotedReason(amount)

\* C4: promote_fund is atomic: whenever no promotion is in flight (also after
\* a failure between its steps), a fund that promote_fund set to committed
\* has commitment_amount and commitment_date stamped and unfunded_amount
\* equal to commitment_amount.
C4_PromoteAtomic ==
    \A f \in funds : \A a \in CommitmentAmounts :
        (pending = Null /\ PromotedWith(f, a)) =>
            /\ commit[f].commitment_amount = Some(a)
            /\ commit[f].commitment_date # Null
            /\ commit[f].unfunded_amount = commit[f].commitment_amount

\* C5: after decline_fund(fund, reason) succeeds the fund is declined and the
\* decline_reason of its pipeline sidecar is reason, whether or not a sidecar
\* row existed before the call.
C5_DeclineRecordsReason ==
    (last.op = "decline_fund" /\ last.result = "ok") =>
        /\ status[last.fund] = "declined"
        /\ meta[last.fund] # Null
        /\ meta[last.fund][1].decline_reason = last.arg

-----------------------------------------------------------------------------
(* The cashflow event store: cashflow_db.py *)

MaxBulk == 2

\* Inputs.  Amounts are in thousandths of a currency unit; dates are day numbers.
StoreFunds == {1, 2}
Dates == {1, 2}
InputTypes == {"capital_call", "distribution"}
ScenarioNames == {"base", "downside"}
Amounts == {1000, 2500}
Currencies == {"EUR", "USD"}
NotesIn == {Null, <<"memo">>}

KeyFields == {"fund_id", "date", "type", "scenario_name"}
ValueFields == {"amount", "currency", "is_actual", "notes"}

AllRecords ==
    [fund_id : StoreFunds, date : Dates, type : InputTypes, scenario_name : ScenarioNames,
     amount : Amounts, currency : Currencies, is_actual : BOOLEAN, notes : NotesIn]

Row0 ==
    [fund_id |-> 1, date |-> 1, type |-> "capital_call", scenario_name |-> "base",
     amount |-> 1000, currency |-> "EUR", is_actual |-> TRUE, notes |-> Null]

Diff(a, b) == Cardinality({k \in KeyFields \cup ValueFields : a[k] # b[k]})

\* The records the calls are made with: Row0, every record that differs from
\* it in one column, and the record with Row0's key and every other column
\* different.
UpsertInputs ==
    {r \in AllRecords :
        \/ Diff(r, Row0) <= 1
        \/ /\ \A k \in KeyFields : r[k] = Row0[k]
           /\ \A k \in ValueFields : r[k] # Row0[k]}

BulkInputs == {r \in UpsertInputs : r.date = 1 /\ r.type = "capital_call" /\ r.notes = Null}

SeqsUpTo(S, n) == UNION {[1..k -> S] : k \in 0..n}

\* UNIQUE(fund_id, date, type, scenario_name)
Key(r) == <<r.fund_id, r.date, r.type, r.scenario_name>>

\* INSERT ... ON CONFLICT (...) DO NOTHING
Upsert_do_nothing(table, r) ==
    IF \E x \in table : Key(x) = Key(r) THEN table ELSE table \cup {r}

\* INSERT ... ON CONFLICT (...) DO UPDATE SET amount = EXCLUDED.amount only
Upsert_amount_only(table, r) ==
    IF \E x \in table : Key(x) = Key(r)
      THEN {IF Key(x) = Key(r) THEN [x EXCEPT !.amount = r.amount] ELSE x : x \in table}
      ELSE table \cup {r}

\* INSERT INTO cashflows ... ON CONFLICT (fund_id, date, type, scenario_name)
\* DO UPDATE SET amount, currency, is_actual, notes = EXCLUDED.*
Upsert(table, r) ==
    IF \E x \in table : Key(x) = Key(r)
      THEN {IF Key(x) = Key(r)
              THEN [x EXCEPT !.amount = r.amount, !.currency = r.currency,
                             !.is_actual = r.is_actual, !.notes = r.notes]
              ELSE x : x \in table}
      ELSE table \cup {r}

\* for cf in cashflows_list: cursor.execute(INSERT ... ON CONFLICT DO UPDATE)
RECURSIVE BulkUpsert(_, _)
BulkUpsert(table, list) ==
    IF list = <<>> THEN table ELSE BulkUpsert(Upsert(table, Head(list)), Tail(list))

\* the most recent write per natural key, kept beside the table
Remember(seen, r) == {x \in seen : Key(x) # Key(r)} \cup {r}

RECURSIVE RememberAll(_, _)
RememberAll(seen, list) ==
    IF list = <<>> THEN seen ELSE RememberAll(Remember(seen, Head(list)), Tail(list))

insert_cashflow(r) ==
    /\ saving = Null
    /\ cashflows' = Upsert(cashflows, r)
    /\ written' = Remember(written, r)
    /\ ret' = [op |-> "insert_cashflow", rec |-> r,
               old |-> {x \in cashflows : Key(x) = Key(r)}, result |-> "ok"]
    /\ UNCHANGED <<scenarios, saving>>
    /\ UNCHANGED <<pipelineVars, writerVars>>
    /\ UNCHANGED fxVars

bulk_insert_cashflows(list) ==
    /\ saving = Null
    /\ IF list = <<>>
         THEN /\ UNCHANGED <<cashflows, written>>
              /\ ret' = [op |-> "bulk_insert_cashflows", list |-> list, count |-> 0,
                         result |-> "ok"]
         ELSE /\ cashflows' = BulkUpsert(cashflows, list)
              /\ written' = RememberAll(written, list)
              /\ ret' = [op |-> "bulk_insert_cashflows", list |-> list, count |-> Len(list),
                         result |-> "ok"]
    /\ UNCHANGED <<scenarios, saving>>
    /\ UNCHANGED <<pipelineVars, writerVars>>
    /\ UNCHANGED fxVars

NextUpsert ==
    \/ \E r \in UpsertInputs : insert_cashflow(r)
    \/ \E list \in SeqsUpTo(BulkInputs, MaxBulk) : bulk_insert_cashflows(list)

SpecUpsert == Init /\ [][NextUpsert]_vars

\* C6: after any sequence of insert_cashflow and bulk_insert_cashflows calls
\* the table holds at most one row per natural key (fund_id, date, type,
\* scenario_name), and that row carries the amount, currency, is_actual and
\* notes of the most recent write with that key.
C6_OneRowPerKey ==
    /\ \A a \in cashflows : \A b \in cashflows : Key(a) = Key(b) => a = b
    /\ \A w \in written : \E x \in cashflows :
          /\ Key(x) = Key(w)
          /\ x.amount = w.amount
          /\ x.currency = w.currency
          /\ x.is_actual = w.is_actual
          /\ x.notes = w.notes
    /\ \A x \in cashflows : \E w \in written : Key(w) = Key(x)

\* the same key written a second time with a different amount: one row, the latest amount
C6_Witness ==
    /\ ret.op = "insert_cashflow"
    /\ \E o \in ret.old : o.amount # ret.rec.amount
    /\ Cardinality({x \in cashflows : Key(x) = Key(ret.rec)}) = 1
    /\ \A x \in cashflows : Key(x) = Key(ret.rec) => x.amount = ret.rec.amount
    /\ Cardinality(cashflows) > 1

-----------------------------------------------------------------------------
(* Saving a forecast: cashflow_forecast_ui.py, cashflow_forecast.py *)

MaxForecast == 2

MODEL_OPTIONS == {"Linear", "Takahashi-Alexander (Yale)"}

\* commit_info.get('currency') or 'EUR'
FundCurrency(f) == IF f = 1 THEN "EUR" ELSE "USD"

\* what a pacing model emits: quarter after quarter, at most one capital call
\* and then one distribution, each above 0.01 and rounded to two decimals
ForecastEntries ==
    {[date |-> 1, type |-> "capital_call", amount |-> 1000],
     [date |-> 1, type |-> "capital_call", amount |-> 2500],
     [date |-> 2, type |-> "distribution", amount |-> 2500]}

Forecasts ==
    {fc \in SeqsUpTo(ForecastEntries, MaxForecast) :
        /\ fc # <<>>
        /\ \A i \in 1..Len(fc) : \A j \in 1..Len(fc) :
              i < j => \/ fc[i].date < fc[j].date
                       \/ /\ fc[i].date = fc[j].date
                          /\ fc[i].type = "capital_call"
                          /\ fc[j].type = "distribution"}

\* rows entered by hand next to the forecasts
ManualInputs ==
    {Row0, [Row0 EXCEPT !.is_actual = FALSE], [Row0 EXCEPT !.fund_id = 2]}

\* round(amount, 2) on thousandths, ties to even
Round2(a) ==
    LET q == a \div 10
        r == a % 10
    IN  IF r < 5 THEN q * 10
        ELSE IF r > 5 THEN (q + 1) * 10
        ELSE IF q % 2 = 0 THEN q * 10 ELSE (q + 1) * 10

\* f"Forecast ({model_name})"
NotesPrefix(model) == <<"Forecast", model>>

ForecastRecord(entry, fund_id, scenario_name, currency, notes_prefix, actual) ==
    [fund_id |-> fund_id, date |-> entry.date, type |-> entry.type,
     scenario_name |-> scenario_name, amount |-> Round2(entry.amount),
     currency |-> currency, is_actual |-> actual,
     notes |-> Append(notes_prefix, entry.type)]

RECURSIVE PrepareWith(_, _, _, _, _, _)
PrepareWith(forecast, fund_id, scenario_name, currency, notes_prefix, actual) ==
    IF forecast = <<>> THEN <<>>
    ELSE LET rest == PrepareWith(Tail(forecast), fund_id, scenario_name, currency,
                                 notes_prefix, actual)
         IN  IF Head(forecast).amount <= 0 THEN rest
             ELSE <<ForecastRecord(Head(forecast), fund_id, scenario_name, currency,
                                   notes_prefix, actual)>> \o rest

\* the rows tagged is_actual = TRUE
prepare_forecast_as_actual(forecast, fund_id, scenario_name, currency, notes_prefix) ==
    PrepareWith(forecast, fund_id, scenario_name, currency, notes_prefix, TRUE)

prepare_forecast_for_insertion(forecast, fund_id, scenario_name, currency, notes_prefix) ==
    PrepareWith(forecast, fund_id, scenario_name, currency, notes_prefix, FALSE)

Planned(table, f, sc) ==
    {x \in table : x.fund_id = f /\ x.scenario_name = sc /\ ~x.is_actual}

\* removes the planned events of one fund and scenario
delete_forecast_cashflows(table, f, sc) == table \ Planned(table, f, sc)

Forget(seen, gone) == {w \in seen : \A x \in gone : Key(x) # Key(w)}

insert_scenario(name) ==
    /\ saving = Null
    /\ scenarios' = scenarios \cup {name}
    /\ ret' = [op |-> "insert_scenario", scenario |-> name, result |-> "ok"]
    /\ UNCHANGED <<cashflows, saving, written>>
    /\ UNCHANGED <<pipelineVars, writerVars>>
    /\ UNCHANGED fxVars

\* _save_forecast up to the return of delete_forecast_cashflows
save_forecast_delete(f, sc, forecast, model) ==
    /\ saving = Null
    /\ sc \in scenarios
    /\ cashflows' = delete_forecast_cashflows(cashflows, f, sc)
    /\ written' = Forget(written, Planned(cashflows, f, sc))
    /\ saving' = Some([fund |-> f, scenario |-> sc, forecast |-> forecast, model |-> model])
    /\ ret' = [op |-> "save_forecast", fund |-> f, scenario |-> sc, forecast |-> forecast,
               model |-> model, prev |-> Planned(cashflows, f, sc), result |-> "running"]
    /\ UNCHANGED scenarios
    /\ UNCHANGED <<pipelineVars, writerVars>>
    /\ UNCHANGED fxVars

\* the rest of _save_forecast: prepare_forecast_for_insertion, bulk_insert_cashflows
save_forecast_insert ==
    /\ saving # Null
    /\ LET s == saving[1]
           records == prepare_forecast_for_insertion(s.forecast, s.fund, s.scenario,
                          FundCurrency(s.fund), NotesPrefix(s.model))
       IN  IF records # <<>>
             THEN /\ cashflows' = BulkUpsert(cashflows, records)
                  /\ written' = RememberAll(written, records)
                  /\ ret' = [ret EXCEPT !.result = "ok"]
             ELSE /\ UNCHANGED <<cashflows, written>>
                  /\ ret' = [ret EXCEPT !.result = "empty"]
    /\ saving' = Null
    /\ UNCHANGED scenarios
    /\ UNCHANGED <<pipelineVars, writerVars>>
    /\ UNCHANGED fxVars

\* bulk_insert_cashflows raises before its commit: none of its rows is stored
save_forecast_fails ==
    /\ saving # Null
    /\ saving' = Null
    /\ ret' = [ret EXCEPT !.result = "failed"]
    /\ UNCHANGED <<cashflows, scenarios, written>>
    /\ UNCHANGED <<pipelineVars, writerVars>>
    /\ UNCHANGED fxVars

NextForecast ==
    \/ \E r \in ManualInputs : insert_cashflow(r)
    \/ insert_scenario("downside")
    \/ \E sc \in ScenarioNames : \E fc \in Forecasts : \E model \in MODEL_OPTIONS :
          save_forecast_delete(1, sc, fc, model)
    \/ save_forecast_insert
    \/ save_forecast_fails

SpecForecast == Init /\ [][NextForecast]_vars

\* C7: when saving a forecast fails after the previous planned events of the
\* fund and scenario were deleted, the store still contains those previous
\* planned events.
C7_FailedSaveKeepsPlanned ==
    (ret.op = "save_forecast" /\ ret.result = "failed")
        => Planned(cashflows, ret.fund, ret.scenario) = ret.prev

ExpectedRows(f, sc, forecast, model) ==
    {[fund_id |-> f, date |-> forecast[i].date, type |-> forecast[i].type,
      scenario_name |-> sc, amount |-> forecast[i].amount, currency |-> FundCurrency(f),
      is_actual |-> FALSE, notes |-> <<"Forecast", model, forecast[i].type>>] :
        i \in 1..Len(forecast)}

\* C8: after a forecast is saved for (fund, scenario), the is_actual = FALSE
\* events of that fund and scenario are exactly the rows of the new forecast,
\* each tagged is_actual = FALSE and scenario = target with a note that starts
\* with the model prefix; no planned event of an earlier save remains.
C8_SaveReplacesPlanned ==
    (ret.op = "save_forecast" /\ ret.result = "ok")
        => /\ Planned(cashflows, ret.fund, ret.scenario)
                = ExpectedRows(ret.fund, ret.scenario, ret.forecast, ret.model)
           /\ \A x \in cashflows :
                 (x.fund_id = ret.fund /\ x.scenario_name = ret.scenario /\ ~x.is_actual)
                    => /\ Len(x.notes) = 3
                       /\ SubSeq(x.notes, 1, 2) = <<"Forecast", ret.model>>
           /\ \A o \in ret.prev :
                 o \in cashflows => o \in ExpectedRows(ret.fund, ret.scenario,
                                                      ret.forecast, ret.model)

\* a second save over an earlier forecast of another model, with a row of the
\* earlier forecast that the new one does not contain
C8_Witness ==
    /\ ret.op = "save_forecast"
    /\ ret.result = "ok"
    /\ \E o \in ret.prev :
          /\ Len(o.notes) = 3
          /\ o.notes[2] # ret.model
          /\ \A i \in 1..Len(ret.forecast) :
                ~(ret.forecast[i].date = o.date /\ ret.forecast[i].type = o.type)
    /\ Cardinality(Planned(cashflows, ret.fund, ret.scenario)) = Len(ret.forecast)

-----------------------------------------------------------------------------
(* Two sessions writing through insert_cashflow at the same time *)

Writers == {"A", "B"}

\* Row0's key with every other column different
Row1 == [Row0 EXCEPT !.amount = 2500, !.currency = "USD", !.is_actual = FALSE,
                     !.notes = <<"memo">>]

WriterInputs == {Row0, Row1, [Row0 EXCEPT !.amount = 2500], [Row0 EXCEPT !.date = 2]}

\* a row another session has inserted or updated and not yet committed
LockedByOther(w, r) ==
    \E v \in Writers \ {w} : wpc[v] = "locked" /\ Key(wrow[v][1]) = Key(r)

\* cursor.execute(INSERT ... ON CONFLICT DO UPDATE) is sent
w_execute(w, r) ==
    /\ wpc[w] = "idle"
    /\ wpc' = [wpc EXCEPT ![w] = "waiting"]
    /\ wrow' = [wrow EXCEPT ![w] = Some(r)]
    /\ UNCHANGED commits
    /\ UNCHANGED <<pipelineVars, storeVars>>
    /\ UNCHANGED fxVars

\* the statement returns once no other open transaction holds the row
w_returns(w) ==
    /\ wpc[w] = "waiting"
    /\ ~LockedByOther(w, wrow[w][1])
    /\ wpc' = [wpc EXCEPT ![w] = "locked"]
    /\ UNCHANGED <<wrow, commits>>
    /\ UNCHANGED <<pipelineVars, storeVars>>
    /\ UNCHANGED fxVars

\* conn.commit(): the statement's effect on the committed table
w_commit(w) ==
    /\ wpc[w] = "locked"
    /\ wpc' = [wpc EXCEPT ![w] = "done"]
    /\ cashflows' = Upsert(cashflows, wrow[w][1])
    /\ written' = Remember(written, wrow[w][1])
    /\ commits' = Append(commits, w)
    /\ UNCHANGED wrow
    /\ UNCHANGED <<scenarios, saving, ret>>
    /\ UNCHANGED pipelineVars
    /\ UNCHANGED fxVars

\* a row stored before the two sessions start
stored_before(r) ==
    /\ \A w \in Writers : wpc[w] = "idle"
    /\ insert_cashflow(r)

NextWriters ==
    \/ \E r \in WriterInputs : stored_before(r)
    \/ \E w \in Writers : \E r \in WriterInputs : w_execute(w, r)
    \/ \E w \in Writers : w_returns(w)
    \/ \E w \in Writers : w_commit(w)

SpecWriters == Init /\ [][NextWriters]_vars

\* the writer among ws that committed last
LastCommitter(ws) ==
    CHOOSE w \in ws : \A i \in 1..Len(commits) : \A j \in 1..Len(commits) :
        (commits[i] \in ws /\ commits[j] = w) => i <= j

\* C9: once two concurrent writers of the same natural key have both
\* committed, the store holds exactly one row for that key and its amount,
\* currency, is_actual and notes are those of the writer that committed last.
C9_LastCommitterWins ==
    (\A w \in Writers : wpc[w] = "done")
        => \A w \in Writers :
             LET k == Key(wrow[w][1])
                 same == {v \in Writers : Key(wrow[v][1]) = k}
                 winner == wrow[LastCommitter(same)][1]
                 rows == {x \in cashflows : Key(x) = k}
             IN  /\ Cardinality(rows) = 1
                 /\ \A x \in rows :
                       /\ x.amount = winner.amount
                       /\ x.currency = winner.currency
                       /\ x.is_actual = winner.is_actual
                       /\ x.notes = winner.notes

\* both wrote Row0's key with every column different, B committed before A
C9_Witness ==
    /\ \A w \in Writers : wpc[w] = "done"
    /\ wrow["A"] = Some(Row1)
    /\ wrow["B"] = Some(Row0)
    /\ commits = <<"B", "A">>
    /\ cashflows = {Row1}

-----------------------------------------------------------------------------
(* Scenarios: cashflow_ui.py, section B *)

ScenarioInputs == ScenarioNames \cup {"Base"}

ScenarioRows ==
    {[Row0 EXCEPT !.fund_id = f, !.scenario_name = sc] :
        f \in StoreFunds, sc \in ScenarioInputs}

\* the delete button is drawn for every selected scenario
CanDeleteScenario_any(selected_scenario) == TRUE

\* if selected_scenario == 'base': caption only, else: the delete button
CanDeleteScenario(selected_scenario) == selected_scenario # "base"

\* removes the scenario and its cashflows of all funds
delete_scenario(sc) ==
    /\ cashflows' = {x \in cashflows : x.scenario_name # sc}
    /\ written' = {x \in written : x.scenario_name # sc}
    /\ scenarios' = scenarios \ {sc}
    /\ ret' = [op |-> "delete_scenario", scenario |-> sc,
               deleted_cf |-> Cardinality({x \in cashflows : x.scenario_name = sc}),
               deleted_sc |-> Cardinality(scenarios \cap {sc}), result |-> "ok"]

delete_scenario_button(selected_scenario) ==
    /\ saving = Null
    /\ selected_scenario \in scenarios
    /\ CanDeleteScenario(selected_scenario)
    /\ delete_scenario(selected_scenario)
    /\ UNCHANGED saving
    /\ UNCHANGED <<pipelineVars, writerVars>>
    /\ UNCHANGED fxVars

\* removes the cashflows, actual and planned, of one fund in one scenario
delete_all_scenario_cashflows(f, sc) ==
    /\ saving = Null
    /\ sc \in scenarios
    /\ cashflows' = {x \in cashflows : ~(x.fund_id = f /\ x.scenario_name = sc)}
    /\ written' = {x \in written : ~(x.fund_id = f /\ x.scenario_name = sc)}
    /\ ret' = [op |-> "delete_all_scenario_cashflows", fund |-> f, scenario |-> sc,
               deleted |-> Cardinality({x \in cashflows :
                                          x.fund_id = f /\ x.scenario_name = sc}),
               result |-> "ok"]
    /\ UNCHANGED <<scenarios, saving>>
    /\ UNCHANGED <<pipelineVars, writerVars>>
    /\ UNCHANGED fxVars

\* the entry form writes into the selected scenario
manual_entry(r) ==
    /\ r.scenario_name \in scenarios
    /\ insert_cashflow(r)

NextScenario ==
    \/ \E name \in ScenarioInputs : insert_scenario(name)
    \/ \E sc \in ScenarioInputs : delete_scenario_button(sc)
    \/ \E f \in StoreFunds : \E sc \in ScenarioInputs : delete_all_scenario_cashflows(f, sc)
    \/ \E r \in ScenarioRows : manual_entry(r)

SpecScenario == Init /\ [][NextScenario]_vars

\* C10: after any sequence of scenario creations and deletions the scenario
\* "base" exists, and every other existing scenario can be deleted: the
\* delete is offered for it and removes it.
C10_BaseProtected ==
    /\ "base" \in scenarios
    /\ \A sc \in scenarios \ {"base"} :
          ENABLED (delete_scenario_button(sc) /\ sc \notin scenarios')
    /\ ~ENABLED (delete_scenario_button("base"))

\* a scenario with cashflows was deleted while base and its cashflows stayed
C10_Witness ==
    /\ ret.op = "delete_scenario"
    /\ ret.scenario \notin scenarios
    /\ ret.deleted_cf > 0
    /\ ret.deleted_sc = 1
    /\ "base" \in scenarios
    /\ \E x \in cashflows : x.scenario_name = "base"

-----------------------------------------------------------------------------
(* The set of statuses *)

\* C11: after any sequence of create, guarded-transition, forced-transition,
\* promote and decline operations every fund's status is one of the eight
\* statuses screening, due_diligence, negotiation, committed, active,
\* harvesting, closed, declined.
C11_StatusInDomain ==
    \A f \in funds :
        status[f] \in {"screening", "due_diligence", "negotiation", "committed",
                       "active", "harvesting", "closed", "declined"}

\* a forced change to closed next to a created pipeline fund
C11_Witness ==
    /\ last.op = "force_change_fund_status"
    /\ last.result = "ok"
    /\ status[last.fund] = "closed"
    /\ funds = {1, 2}

-----------------------------------------------------------------------------
(* Exchange rates: cashflow_db.py.  Dates are written yyyymmdd; a rate is in *)
(* thousandths, so 1.0 is 1000.                                              *)

RateOne == 1000

RateDates == {20240101, 20240401}
RateValues == {900, 1100}
RatePairs == {<<"USD", "EUR">>, <<"EUR", "USD">>, <<"EUR", "EUR">>}
LookupDates == {20231231, 20240101, 20240215, 20240401, 20240630}

RateRow(from, to, d, rate) ==
    [from_currency |-> from, to_currency |-> to, rate_date |-> d, rate |-> rate]

\* UNIQUE(from_currency, to_currency, rate_date)
RateKey(e) == <<e.from_currency, e.to_currency, e.rate_date>>

\* INSERT ... ON CONFLICT (from_currency, to_currency, rate_date) DO UPDATE SET rate
insert_exchange_rate(from, to, d, rate) ==
    /\ rates' = IF \E e \in rates : RateKey(e) = <<from, to, d>>
                  THEN {IF RateKey(e) = <<from, to, d>> THEN [e EXCEPT !.rate = rate] ELSE e :
                          e \in rates}
                  ELSE rates \cup {RateRow(from, to, d, rate)}
    /\ ret' = [op |-> "insert_exchange_rate", from_currency |-> from, to_currency |-> to,
               rate_date |-> d, rate |-> rate, result |-> "ok"]
    /\ UNCHANGED <<cashflows, scenarios, saving, written>>
    /\ UNCHANGED <<pipelineVars, writerVars>>

\* WHERE from_currency = %s AND to_currency = %s AND rate_date <= %s
RatesUpTo(table, from, to, d) ==
    {e \in table : e.from_currency = from /\ e.to_currency = to /\ e.rate_date <= d}

\* ORDER BY rate_date ASC LIMIT 1
get_exchange_rate_earliest(table, from, to, d) ==
    IF from = to THEN Some(RateOne)
    ELSE LET m == RatesUpTo(table, from, to, d)
         IN  IF m = {} THEN Null
             ELSE Some((CHOOSE e \in m : \A x \in m : e.rate_date <= x.rate_date).rate)

\* ORDER BY rate_date DESC LIMIT 1; 1.0 for equal currencies without a lookup
get_exchange_rate(table, from, to, d) ==
    IF from = to THEN Some(RateOne)
    ELSE LET m == RatesUpTo(table, from, to, d)
         IN  IF m = {} THEN Null
             ELSE Some((CHOOSE e \in m : \A x \in m : x.rate_date <= e.rate_date).rate)

\* the lookup with inverse fallback: if from/to is not found, to/from inverted
get_exchange_rate_with_inverse(table, from, to, d) ==
    LET direct == get_exchange_rate(table, from, to, d)
        back == get_exchange_rate(table, to, from, d)
    IN  IF direct # Null THEN direct
        ELSE IF back # Null THEN Some((RateOne * RateOne) \div back[1])
        ELSE Null

NextRates ==
    \E p \in RatePairs : \E d \in RateDates : \E rate \in RateValues :
        insert_exchange_rate(p[1], p[2], d, rate)

SpecRates == Init /\ [][NextRates]_vars

\* C17: after any sequence of insert_exchange_rate upserts,
\* get_exchange_rate(from, to, d) is the rate of the stored entry of the
\* ordered pair (from, to) with the greatest rate_date <= d, null when there
\* is none, and 1.0 when from = to whatever is stored; a later upsert of the
\* same (from, to, rate_date) replaces the earlier rate.
C17_RateLookup ==
    /\ \A from \in Currencies : \A to \in Currencies : \A d \in LookupDates :
          LET got == get_exchange_rate(rates, from, to, d)
          IN  /\ from = to => got = <<1000>>
              /\ from # to =>
                    /\ (~\E e \in rates : /\ e.from_currency = from
                                           /\ e.to_currency = to
                                           /\ e.rate_date <= d) => got = <<>>
                    /\ \A e \in rates :
                          (/\ e.from_currency = from
                           /\ e.to_currency = to
                           /\ e.rate_date <= d
                           /\ ~\E x \in rates : /\ x.from_currency = from
                                                /\ x.to_currency = to
                                                /\ x.rate_date <= d
                                                /\ x.rate_date > e.rate_date)
                            => got = <<e.rate>>
    /\ \A a \in rates : \A b \in rates : RateKey(a) = RateKey(b) => a = b
    /\ ret.op = "insert_exchange_rate" =>
          \E e \in rates : /\ RateKey(e) = <<ret.from_currency, ret.to_currency, ret.rate_date>>
                           /\ e.rate = ret.rate

\* two dated USD/EUR rates, the later one upserted twice, and an EUR/EUR row:
\* a lookup between the two dates gives the earlier rate
C17_Witness ==
    /\ RateRow("USD", "EUR", 20240101, 900) \in rates
    /\ \E e \in rates : RateKey(e) = <<"USD", "EUR", 20240401>>
    /\ RateRow("EUR", "EUR", 20240101, 900) \in rates
    /\ ret.op = "insert_exchange_rate"
    /\ RateKey(ret) = <<"USD", "EUR", 20240401>>
    /\ ret.rate = 1100
    /\ get_exchange_rate(rates, "USD", "EUR", 20240215) = <<900>>
    /\ get_exchange_rate(rates, "USD", "EUR", 20240630) = <<1100>>
    /\ get_exchange_rate(rates, "EUR", "USD", 20240630) = <<>>

-----------------------------------------------------------------------------
(* Aggregation: cashflow_queries.py.  A DataFrame is a sequence of rows.     *)

MaxEvents == 3

OUTFLOW_TYPES == {"capital_call", "management_fee", "carried_interest"}
INFLOW_TYPES == {"distribution", "clawback"}

\* date.today()
Today == 20240630

EventRow(f, d, t, a, act) ==
    [fund_id |-> f, date |-> d, type |-> t, scenario_name |-> "base", amount |-> a,
     currency |-> FundCurrency(f), is_actual |-> act, notes |-> Null]

\* the events entered for the two funds: fund 1 is kept in EUR, fund 2 in USD
QueryRows ==
    {EventRow(1, 20240215, "capital_call", 100, TRUE),
     EventRow(1, 20240215, "capital_call", 250, FALSE),
     EventRow(1, 20240215, "distribution", 250, TRUE),
     EventRow(1, 20240515, "management_fee", 100, FALSE),
     EventRow(1, 20240815, "clawback", 100, FALSE),
     EventRow(2, 20231215, "capital_call", 100, TRUE),
     EventRow(2, 20240515, "distribution", 250, FALSE)}

QueryRates ==
    {RateRow("USD", "EUR", 20240101, 900), RateRow("USD", "EUR", 20240401, 1100),
     RateRow("EUR", "USD", 20240101, 1100)}

FundIdLists == {<<1>>, <<2>>, <<1, 2>>}

Year(d) == d \div 10000
Month(d) == (d \div 100) % 100

\* dt.to_period('Q').astype(str), "2024Q1" written 20241
QuarterLabel(d) == Year(d) * 10 + ((Month(d) - 1) \div 3) + 1

\* to_period('Q') for period = 'quarter', else dt.year
PeriodLabel(d, period) == IF period = "quarter" THEN QuarterLabel(d) ELSE Year(d)

Perms(S) ==
    {q \in [1..Cardinality(S) -> S] :
        \A i \in 1..Cardinality(S) : \A j \in 1..Cardinality(S) : q[i] = q[j] => i = j}

\* SELECT ... WHERE fund_id = %s AND scenario_name = %s ORDER BY date: the
\* orders in which the rows can come back
get_cashflows_for_fund(table, f, sc) ==
    {q \in Perms({x \in table : x.fund_id = f /\ x.scenario_name = sc}) :
        \A i \in 1..Len(q) : \A j \in 1..Len(q) : i < j => q[i].date <= q[j].date}

\* the amount as stored, whatever the type
SignedOf_as_stored(type, amount) == amount

\* -amount for the outflow types, else amount
SignedOf(type, amount) == IF type \in OUTFLOW_TYPES THEN 0 - amount ELSE amount

\* df['signed_amount'] = ... on the amount column
SignedAmount(df) ==
    [i \in 1..Len(df) |->
        [fund_id |-> df[i].fund_id, date |-> df[i].date, type |-> df[i].type,
         is_actual |-> df[i].is_actual, amount |-> df[i].amount,
         signed_amount |-> SignedOf(df[i].type, df[i].amount)]]

RECURSIVE SumIdx(_, _, _)
\* x[x < 0].sum(), x[x > 0].sum() and x.sum() over the rows I of df
SumIdx(df, I, sel) ==
    IF I = {} THEN 0
    ELSE LET i == CHOOSE k \in I : TRUE
             v == df[i].signed_amount
             t == IF sel = "neg" THEN (IF v < 0 THEN v ELSE 0)
                  ELSE IF sel = "pos" THEN (IF v > 0 THEN v ELSE 0)
                  ELSE v
         IN  t + SumIdx(df, I \ {i}, sel)

RECURSIVE SumAmountIdx(_, _, _)
\* g.loc[g['type'].isin(types), amount].sum() over the rows I of df
SumAmountIdx(df, I, types) ==
    IF I = {} THEN 0
    ELSE LET i == CHOOSE k \in I : TRUE
         IN  (IF df[i].type \in types THEN df[i].amount ELSE 0)
                + SumAmountIdx(df, I \ {i}, types)

RECURSIVE SortAsc(_)
SortAsc(S) ==
    IF S = {} THEN <<>>
    ELSE LET m == CHOOSE k \in S : \A x \in S : k <= x
         IN  <<m>> \o SortAsc(S \ {m})

\* the group keys in the order of first appearance in df
RECURSIVE FirstSeen(_, _)
FirstSeen(keys, seen) ==
    IF keys = <<>> THEN <<>>
    ELSE IF Head(keys) \in seen THEN FirstSeen(Tail(keys), seen)
    ELSE <<Head(keys)>> \o FirstSeen(Tail(keys), seen \cup {Head(keys)})

RECURSIVE CumSumNet(_, _)
\* grouped['net_cashflow'].cumsum()
CumSumNet(rows, k) == IF k = 0 THEN 0 ELSE CumSumNet(rows, k - 1) + rows[k].net_cashflow

\* groupby('date').agg(...), net_cashflow, in the order ds of the dates
CumulativeRows(df, ds) ==
    LET grouped == [k \in 1..Len(ds) |->
                      LET I == {i \in 1..Len(df) : df[i].date = ds[k]}
                          calls == SumIdx(df, I, "neg")
                          dists == SumIdx(df, I, "pos")
                      IN  [date |-> ds[k], capital_calls |-> calls, distributions |-> dists,
                           net_cashflow |-> calls + dists]]
    IN  [k \in 1..Len(ds) |->
            [date |-> grouped[k].date, capital_calls |-> grouped[k].capital_calls,
             distributions |-> grouped[k].distributions,
             net_cashflow |-> grouped[k].net_cashflow,
             cumulative_net_cashflow |-> CumSumNet(grouped, k)]]

\* the cumulative sum taken over the dates as they first appear, without sort_values
Cumulative_unsorted(df) ==
    CumulativeRows(df, FirstSeen([i \in 1..Len(df) |-> df[i].date], {}))

\* groupby('date') ... sort_values('date') ... cumsum()
Cumulative(df) == CumulativeRows(df, SortAsc({df[i].date : i \in 1..Len(df)}))

\* groupby('period_label') ... sort_values('period_label')
Periodic(df, period) ==
    LET ps == SortAsc({PeriodLabel(df[i].date, period) : i \in 1..Len(df)})
    IN  [k \in 1..Len(ps) |->
            LET I == {i \in 1..Len(df) : PeriodLabel(df[i].date, period) = ps[k]}
                calls == SumIdx(df, I, "neg")
                dists == SumIdx(df, I, "pos")
            IN  [period_label |-> ps[k], capital_calls |-> calls, distributions |-> dists,
                 net_cashflow |-> calls + dists]]

\* on one result of get_cashflows_for_fund_cached
get_cumulative_cashflows_cached(df) == Cumulative(SignedAmount(df))

get_periodic_cashflows_cached(df, period) == Periodic(SignedAmount(df), period)

-----------------------------------------------------------------------------
(* Conversion to a base currency and the portfolio aggregation.  An amount  *)
(* in base currency is amount times rate, so it carries the factor RateOne. *)

\* one result of get_cashflows_for_fund_cached with original_currency, fx_rate, amount_base
get_cashflows_in_base_currency_cached(df, rt, f, base) ==
    [i \in 1..Len(df) |->
        LET rate == IF FundCurrency(f) = base THEN Some(RateOne)
                    ELSE get_exchange_rate_with_inverse(rt, FundCurrency(f), base, df[i].date)
        IN  [fund_id |-> df[i].fund_id, fund_name |-> f, date |-> df[i].date,
             type |-> df[i].type, is_actual |-> df[i].is_actual, amount |-> df[i].amount,
             original_currency |-> FundCurrency(f), fx_rate |-> rate,
             amount_base |-> IF rate # Null THEN Some(df[i].amount * rate[1]) ELSE Null]]

RECURSIVE get_cashflows_multi_fund_base_currency_cached(_, _, _, _, _)
\* pd.concat of the funds' frames in the order of fund_ids: the frames that
\* can result, one per order in which the rows of each fund come back
get_cashflows_multi_fund_base_currency_cached(table, rt, fund_ids, base, sc) ==
    IF fund_ids = <<>> THEN {<<>>}
    ELSE {get_cashflows_in_base_currency_cached(df, rt, Head(fund_ids), base) \o rest :
            df \in get_cashflows_for_fund(table, Head(fund_ids), sc),
            rest \in get_cashflows_multi_fund_base_currency_cached(
                        table, rt, Tail(fund_ids), base, sc)}

\* dropna(subset=['amount_base'])
DropNa(df) == SelectSeq(df, LAMBDA r : r.amount_base # Null)

\* df['signed_amount'] = ... on the amount_base column
SignedBase(df) ==
    [i \in 1..Len(df) |->
        [fund_id |-> df[i].fund_id, date |-> df[i].date, type |-> df[i].type,
         is_actual |-> df[i].is_actual, amount |-> df[i].amount_base[1],
         signed_amount |-> SignedOf(df[i].type, df[i].amount_base[1])]]

get_portfolio_cumulative_cashflows_cached(multi_df) == Cumulative(SignedBase(DropNa(multi_df)))

get_portfolio_periodic_cashflows_cached(multi_df, period) ==
    Periodic(SignedBase(DropNa(multi_df)), period)

-----------------------------------------------------------------------------
(* Summaries: cashflow_queries.py *)

\* the summary with dpi 1.0 for a fund that has nothing called
get_cashflow_summary_dpi_one(df) ==
    LET called == SumAmountIdx(df, 1..Len(df), OUTFLOW_TYPES)
        distributed == SumAmountIdx(df, 1..Len(df), INFLOW_TYPES)
    IN  [total_called |-> called, total_distributed |-> distributed,
         net_cashflow |-> distributed - called,
         dpi |-> IF called > 0 THEN (distributed * RateOne) \div called ELSE RateOne]

\* total_called, total_distributed, net_cashflow and dpi (in thousandths) of one fund
get_cashflow_summary_cached(df) ==
    LET called == SumAmountIdx(df, 1..Len(df), OUTFLOW_TYPES)
        distributed == SumAmountIdx(df, 1..Len(df), INFLOW_TYPES)
    IN  [total_called |-> called, total_distributed |-> distributed,
         net_cashflow |-> distributed - called,
         dpi |-> IF called > 0 THEN (distributed * RateOne) \div called ELSE 0]

\* one warning per row without amount_base
FxWarnings_per_row(missing_fx, base) ==
    [i \in 1..Len(missing_fx) |->
        <<missing_fx[i].fund_name, missing_fx[i].original_currency, base>>]

\* drop_duplicates(subset=['fund_name', 'original_currency']): one warning
\* "fund (currency -> base)" per fund and currency, in the order of the rows
FxWarnings(missing_fx, base) ==
    FirstSeen([i \in 1..Len(missing_fx) |->
                 <<missing_fx[i].fund_name, missing_fx[i].original_currency, base>>], {})

\* info.get(...) or 0
OrZero(v) == IF v = Null THEN 0 ELSE v[1]

RECURSIVE CommitmentTotal(_, _, _, _, _)
\* the loop over fund_ids: commitment_amount or unfunded_amount in base
\* currency at today's rate, a fund without a rate adding nothing
CommitmentTotal(fund_ids, info, rt, base, column) ==
    IF fund_ids = <<>> THEN 0
    ELSE LET fid == Head(fund_ids)
             amount == OrZero(info[fid][column])
             rate == get_exchange_rate_with_inverse(rt, FundCurrency(fid), base, Today)
             rest == CommitmentTotal(Tail(fund_ids), info, rt, base, column)
         IN  IF FundCurrency(fid) = base THEN amount * RateOne + rest
             ELSE IF rate # Null THEN amount * rate[1] + rest
             ELSE rest

get_portfolio_summary_cached(multi_df, fund_ids, info, rt, base) ==
    LET missing_fx == SelectSeq(multi_df, LAMBDA r : r.amount_base = Null)
        valid_df == SignedBase(DropNa(multi_df))
        called == SumAmountIdx(valid_df, 1..Len(valid_df), OUTFLOW_TYPES)
        distributed == SumAmountIdx(valid_df, 1..Len(valid_df), INFLOW_TYPES)
    IN  [total_commitment |-> CommitmentTotal(fund_ids, info, rt, base, "commitment_amount"),
         total_called |-> called,
         total_distributed |-> distributed,
         total_unfunded |-> CommitmentTotal(fund_ids, info, rt, base, "unfunded_amount"),
         net_cashflow |-> distributed - called,
         portfolio_dpi |-> IF called > 0 THEN (distributed * RateOne) \div called ELSE 0,
         num_funds |-> Len(fund_ids),
         fx_warnings |-> FxWarnings(missing_fx, base)]

\* the rows of one fund as get_cashflows_for_fund_cached returns them; the
\* sums taken from them do not depend on the order of rows of one date
FetchOne(table, f, sc) == CHOOSE df \in get_cashflows_for_fund(table, f, sc) : TRUE

\* one row per fund, everything converted at today's rate
get_portfolio_fund_breakdown_cached(table, fund_ids, info, rt, base, sc) ==
    [k \in 1..Len(fund_ids) |->
        LET fid == fund_ids[k]
            fx == IF FundCurrency(fid) = base THEN Some(RateOne)
                  ELSE get_exchange_rate_with_inverse(rt, FundCurrency(fid), base, Today)
            summary == get_cashflow_summary_cached(FetchOne(table, fid, sc))
            called_base == IF fx # Null THEN Some(summary.total_called * fx[1]) ELSE Null
            distributed_base ==
                IF fx # Null THEN Some(summary.total_distributed * fx[1]) ELSE Null
        IN  [fund_name |-> fid, currency |-> FundCurrency(fid),
             commitment_base |-> IF fx # Null
                                   THEN Some(OrZero(info[fid].commitment_amount) * fx[1])
                                   ELSE Null,
             called_base |-> called_base,
             distributed_base |-> distributed_base,
             net_base |-> IF called_base # Null /\ distributed_base # Null
                            THEN Some(distributed_base[1] - called_base[1]) ELSE Null,
             dpi |-> summary.dpi]]

-----------------------------------------------------------------------------
(* Actual against forecast *)

\* _periodic: groupby quarter with calls, dists, net
QuarterRows(sub) ==
    LET ps == SortAsc({QuarterLabel(sub[i].date) : i \in 1..Len(sub)})
    IN  [k \in 1..Len(ps) |->
            LET I == {i \in 1..Len(sub) : QuarterLabel(sub[i].date) = ps[k]}
            IN  [period |-> ps[k], calls |-> SumIdx(sub, I, "neg"),
                 dists |-> SumIdx(sub, I, "pos"), net |-> SumIdx(sub, I, "all")]]

NetOf(per, p) ==
    IF \E k \in 1..Len(per) : per[k].period = p
      THEN per[CHOOSE k \in 1..Len(per) : per[k].period = p].net
      ELSE 0

\* merge(how='outer').fillna(0), only when both sides have rows
Deviation(actual_per, forecast_per) ==
    IF actual_per # <<>> /\ forecast_per # <<>>
      THEN LET ps == SortAsc({actual_per[k].period : k \in 1..Len(actual_per)}
                               \cup {forecast_per[k].period : k \in 1..Len(forecast_per)})
           IN  [k \in 1..Len(ps) |->
                   [period |-> ps[k], net_actual |-> NetOf(actual_per, ps[k]),
                    net_forecast |-> NetOf(forecast_per, ps[k]),
                    deviation |-> NetOf(actual_per, ps[k]) - NetOf(forecast_per, ps[k])]]
      ELSE <<>>

\* the split, the two cumulative curves and the deviation table of a signed frame
ActualVsForecast(sdf) ==
    LET actual_df == SelectSeq(sdf, LAMBDA r : r.is_actual)
        forecast_df == SelectSeq(sdf, LAMBDA r : ~r.is_actual)
    IN  [actual_cumulative |-> Cumulative(actual_df),
         forecast_cumulative |-> Cumulative(forecast_df),
         periodic_deviation |-> Deviation(QuarterRows(actual_df), QuarterRows(forecast_df))]

get_actual_vs_forecast_cached(df) == ActualVsForecast(SignedAmount(df))

get_portfolio_actual_vs_forecast_cached(multi_df) ==
    ActualVsForecast(SignedBase(DropNa(multi_df)))

-----------------------------------------------------------------------------
(* The store the queries read: events are entered and deleted, rates entered *)

\* the entry form and the import store an event of an existing fund
query_entry(r) ==
    /\ Cardinality(Upsert(cashflows, r)) <= MaxEvents
    /\ insert_cashflow(r)

\* DELETE FROM cashflows WHERE cashflow_id = %s
delete_cashflow(r) ==
    /\ saving = Null
    /\ r \in cashflows
    /\ cashflows' = cashflows \ {r}
    /\ written' = Forget(written, {r})
    /\ ret' = [op |-> "delete_cashflow", rec |-> r, result |-> "ok"]
    /\ UNCHANGED <<scenarios, saving>>
    /\ UNCHANGED <<pipelineVars, writerVars>>
    /\ UNCHANGED fxVars

rate_entry(e) == insert_exchange_rate(e.from_currency, e.to_currency, e.rate_date, e.rate)

NextQueries ==
    \/ \E r \in QueryRows : query_entry(r)
    \/ \E r \in QueryRows : delete_cashflow(r)
    \/ \E e \in QueryRates : rate_entry(e)

SpecQueries == Init /\ [][NextQueries]_vars

-----------------------------------------------------------------------------
(* Aggregation: properties *)

RECURSIVE SumAmounts(_)
SumAmounts(S) ==
    IF S = {} THEN 0
    ELSE LET x == CHOOSE y \in S : TRUE IN x.amount + SumAmounts(S \ {x})

Outflows(S) == {x \in S : x.type \in {"capital_call", "management_fee", "carried_interest"}}
Inflows(S) == {x \in S : x.type \in {"distribution", "clawback"}}

\* the stored events of the funds in scenario base that have a rate to the
\* base currency at their date, with the amount in base currency
Converted(fund_ids, base) ==
    {[x EXCEPT !.amount = x.amount * get_exchange_rate_with_inverse(
                                         rates, FundCurrency(x.fund_id), base, x.date)[1]] :
        x \in {y \in cashflows :
                 /\ y.scenario_name = "base"
                 /\ \E i \in 1..Len(fund_ids) : fund_ids[i] = y.fund_id
                 /\ get_exchange_rate_with_inverse(
                        rates, FundCurrency(y.fund_id), base, y.date) # Null}}

StoredOf(f) == {x \in cashflows : x.fund_id = f /\ x.scenario_name = "base"}

\* a result row against the events G of its group
SignsRight(row, G) ==
    /\ row.capital_calls = 0 - SumAmounts(Outflows(G))
    /\ row.distributions = SumAmounts(Inflows(G))
    /\ row.net_cashflow = SumAmounts(Inflows(G)) - SumAmounts(Outflows(G))
    /\ Outflows(G) # {} => row.capital_calls < 0
    /\ Inflows(G) # {} => row.distributions > 0

CurveSignsRight(curve, S) ==
    \A k \in 1..Len(curve) : SignsRight(curve[k], {x \in S : x.date = curve[k].date})

RollupSignsRight(rollup, S, period) ==
    \A k \in 1..Len(rollup) :
        SignsRight(rollup[k], {x \in S : PeriodLabel(x.date, period) = rollup[k].period_label})

\* C12: in every row of a cumulative curve or periodic rollup (single-fund,
\* portfolio, actual-vs-forecast) capital_calls is minus the sum of the
\* amounts of the outflow-type events of the group, distributions is the sum
\* of the amounts of its inflow-type events and net_cashflow is their sum, so
\* outflow events count strictly negative and inflow events strictly positive.
C12_SignConvention ==
    /\ \A f \in StoreFunds : \A df \in get_cashflows_for_fund(cashflows, f, "base") :
          /\ CurveSignsRight(get_cumulative_cashflows_cached(df), StoredOf(f))
          /\ \A period \in {"quarter", "year"} :
                RollupSignsRight(get_periodic_cashflows_cached(df, period), StoredOf(f), period)
          /\ CurveSignsRight(get_actual_vs_forecast_cached(df).actual_cumulative,
                             {x \in StoredOf(f) : x.is_actual})
          /\ CurveSignsRight(get_actual_vs_forecast_cached(df).forecast_cumulative,
                             {x \in StoredOf(f) : ~x.is_actual})
    /\ \A fund_ids \in FundIdLists : \A base \in Currencies :
          \A multi_df \in get_cashflows_multi_fund_base_currency_cached(
                              cashflows, rates, fund_ids, base, "base") :
            /\ CurveSignsRight(get_portfolio_cumulative_cashflows_cached(multi_df),
                               Converted(fund_ids, base))
            /\ \A period \in {"quarter", "year"} :
                  RollupSignsRight(get_portfolio_periodic_cashflows_cached(multi_df, period),
                                   Converted(fund_ids, base), period)
            /\ CurveSignsRight(
                    get_portfolio_actual_vs_forecast_cached(multi_df).actual_cumulative,
                    {x \in Converted(fund_ids, base) : x.is_actual})
            /\ CurveSignsRight(
                    get_portfolio_actual_vs_forecast_cached(multi_df).forecast_cumulative,
                    {x \in Converted(fund_ids, base) : ~x.is_actual})

\* a capital call of 100 and a distribution of 250 on one date give -100,
\* +250 and net 150, with a converted event of the other fund in the portfolio
C12_Witness ==
    /\ EventRow(1, 20240215, "capital_call", 100, TRUE) \in cashflows
    /\ EventRow(1, 20240215, "distribution", 250, TRUE) \in cashflows
    /\ EventRow(2, 20240515, "distribution", 250, FALSE) \in cashflows
    /\ RateRow("USD", "EUR", 20240401, 1100) \in rates
    /\ \E df \in get_cashflows_for_fund(cashflows, 1, "base") :
          \E k \in 1..Len(get_cumulative_cashflows_cached(df)) :
            LET row == get_cumulative_cashflows_cached(df)[k]
            IN  /\ row.capital_calls = 0 - 100
                /\ row.distributions = 250
                /\ row.net_cashflow = 150

SignedTotal(S) == SumAmounts(Inflows(S)) - SumAmounts(Outflows(S))

\* a cumulative curve against the events S it was built from
RunningTotal(curve, S) ==
    /\ {curve[k].date : k \in 1..Len(curve)} = {x.date : x \in S}
    /\ \A k \in 1..Len(curve) :
          /\ k > 1 => curve[k - 1].date < curve[k].date
          /\ curve[k].cumulative_net_cashflow
                = curve[k].net_cashflow
                    + (IF k > 1 THEN curve[k - 1].cumulative_net_cashflow ELSE 0)
          /\ curve[k].cumulative_net_cashflow
                = SignedTotal({x \in S : x.date <= curve[k].date})
    /\ curve # <<>> => curve[Len(curve)].cumulative_net_cashflow = SignedTotal(S)

\* C13: in the cumulative curve, cumulative_net_cashflow of each row is the
\* running total of net_cashflow over the rows up to that date in ascending
\* date order, and the final value is the sum of all signed event amounts,
\* for every order of the input events.
C13_CumulativeOrderFree ==
    /\ \A f \in StoreFunds : \A df \in Perms(StoredOf(f)) :
          RunningTotal(get_cumulative_cashflows_cached(df), StoredOf(f))
    /\ \A fund_ids \in FundIdLists : \A base \in Currencies :
          \A multi_df \in get_cashflows_multi_fund_base_currency_cached(
                              cashflows, rates, fund_ids, base, "base") :
            \A permuted \in Perms({multi_df[i] : i \in 1..Len(multi_df)}) :
                RunningTotal(get_portfolio_cumulative_cashflows_cached(permuted),
                             Converted(fund_ids, base))

\* three events of one fund on three dates, two negative and one positive
C13_Witness ==
    /\ Cardinality(StoredOf(1)) = 3
    /\ Cardinality({x.date : x \in StoredOf(1)}) = 3
    /\ \E df \in Perms(StoredOf(1)) :
          /\ df[1].date > df[2].date
          /\ Len(get_cumulative_cashflows_cached(df)) = 3
          /\ get_cumulative_cashflows_cached(df)[3].cumulative_net_cashflow
                = 0 - 100 - 100 + 100

-----------------------------------------------------------------------------
(* Missing exchange rates *)

Without(fund_ids, f) == SelectSeq(fund_ids, LAMBDA g : g # f)

Named(warnings, f) == {i \in 1..Len(warnings) : warnings[i][1] = f}

\* fund f has events and none of them has a rate to base at its date
NoRateAtAll(f, base) ==
    /\ StoredOf(f) # {}
    /\ \A x \in StoredOf(f) :
          get_exchange_rate_with_inverse(rates, FundCurrency(f), base, x.date) = Null

\* C14: when no event date of a fund F in currency C has a resolvable rate
\* from C to the base currency, F's events add exactly 0 to total_called and
\* total_distributed of the portfolio summary, and F is in fx_warnings
\* exactly once, however many events it has.
C14_NoRateFund ==
    \A fund_ids \in FundIdLists : \A base \in Currencies :
      \A multi_df \in get_cashflows_multi_fund_base_currency_cached(
                          cashflows, rates, fund_ids, base, "base") :
        \A k \in 1..Len(fund_ids) :
          NoRateAtAll(fund_ids[k], base) =>
            LET summary == get_portfolio_summary_cached(multi_df, fund_ids, commit, rates, base)
                others == Converted(Without(fund_ids, fund_ids[k]), base)
            IN  /\ summary.total_called = SumAmounts(Outflows(others))
                /\ summary.total_distributed = SumAmounts(Inflows(others))
                /\ Cardinality(Named(summary.fx_warnings, fund_ids[k])) = 1

\* fund 2 (USD) has two events and no rate; fund 1 has a capital call
C14_Witness ==
    /\ Cardinality(StoredOf(2)) = 2
    /\ NoRateAtAll(2, "EUR")
    /\ EventRow(1, 20240215, "capital_call", 100, TRUE) \in cashflows
    /\ \E multi_df \in get_cashflows_multi_fund_base_currency_cached(
                            cashflows, rates, <<1, 2>>, "EUR", "base") :
          LET summary == get_portfolio_summary_cached(multi_df, <<1, 2>>, commit, rates, "EUR")
          IN  /\ summary.fx_warnings = <<(<<2, "USD", "EUR">>)>>
              /\ summary.total_called = 100 * 1000
              /\ summary.total_distributed = 0

\* COALESCE(%s, column)
Coalesce(v, old) == IF v # Null THEN v ELSE old

\* UPDATE funds SET commitment_amount = COALESCE(...), ... WHERE fund_id = %s
update_fund_commitment(f, commitment_amount, unfunded_amount, commitment_date) ==
    /\ saving = Null
    /\ commit' = IF f \in funds
                   THEN [commit EXCEPT ![f] =
                           [commitment_amount |-> Coalesce(commitment_amount, @.commitment_amount),
                            commitment_date |-> Coalesce(commitment_date, @.commitment_date),
                            unfunded_amount |-> Coalesce(unfunded_amount, @.unfunded_amount)]]
                   ELSE commit
    /\ ret' = [op |-> "update_fund_commitment", fund |-> f, result |-> "ok"]
    /\ UNCHANGED <<funds, status, history, meta, pending, last>>
    /\ UNCHANGED <<cashflows, scenarios, saving, written>>
    /\ UNCHANGED <<writerVars, fxVars>>

SummaryRows ==
    {EventRow(1, 20240215, "capital_call", 100, TRUE),
     EventRow(2, 20240515, "distribution", 250, FALSE)}

NextSummary ==
    \/ \E r \in SummaryRows : query_entry(r)
    \/ \E r \in SummaryRows : delete_cashflow(r)
    \/ \E e \in QueryRates : rate_entry(e)
    \/ \E f \in FundIds : \E a \in CommitmentAmounts : \E u \in {0, a} :
          \E d \in CommitmentDates :
            update_fund_commitment(f, Some(a), Some(u), Some(d))

SpecSummary == Init /\ [][NextSummary]_vars

\* an amount of fund f is left out of a total of the summary in base currency
LeftOut(f, base, multi_df) ==
    \/ \E i \in 1..Len(multi_df) : multi_df[i].fund_id = f /\ multi_df[i].amount_base = Null
    \/ /\ FundCurrency(f) # base
       /\ get_exchange_rate_with_inverse(rates, FundCurrency(f), base, Today) = Null
       /\ \/ OrZero(commit[f].commitment_amount) > 0
          \/ OrZero(commit[f].unfunded_amount) > 0

\* C15: whenever an amount of a fund (an event, its commitment or its
\* unfunded balance) is left out of a portfolio summary total because no rate
\* to the base currency resolves, the fund is named in fx_warnings.
C15_ExclusionWarned ==
    \A fund_ids \in FundIdLists : \A base \in Currencies :
      \A multi_df \in get_cashflows_multi_fund_base_currency_cached(
                          cashflows, rates, fund_ids, base, "base") :
        \A k \in 1..Len(fund_ids) :
          LeftOut(fund_ids[k], base, multi_df) =>
            Named(get_portfolio_summary_cached(multi_df, fund_ids, commit, rates, base)
                    .fx_warnings, fund_ids[k]) # {}

\* C16: in the per-fund breakdown called_base, distributed_base and net_base
\* of a fund are null whenever one of its events cannot be converted to the
\* base currency at its own date, and non-null only when all of them can.
C16_BreakdownNulls ==
    \A fund_ids \in FundIdLists : \A base \in Currencies :
      LET breakdown == get_portfolio_fund_breakdown_cached(
                           cashflows, fund_ids, commit, rates, base, "base")
      IN  \A k \in 1..Len(fund_ids) :
            LET incomplete ==
                  \E x \in StoredOf(fund_ids[k]) :
                      get_exchange_rate_with_inverse(
                          rates, FundCurrency(fund_ids[k]), base, x.date) = Null
            IN  /\ incomplete => /\ breakdown[k].called_base = Null
                                 /\ breakdown[k].distributed_base = Null
                                 /\ breakdown[k].net_base = Null
                /\ (\/ breakdown[k].called_base # Null
                    \/ breakdown[k].distributed_base # Null
                    \/ breakdown[k].net_base # Null) => ~incomplete

\* the quarters in which the events S fall
QuartersOf(S) == {QuarterLabel(x.date) : x \in S}

\* C18: the periodic deviation table of a fund has exactly one row per quarter
\* that holds at least one actual or planned event, the side without events in
\* a quarter being 0, also when the fund has only actual or only planned events.
C18_RowPerQuarter ==
    \A f \in FundIds :
      \A df \in get_cashflows_for_fund(cashflows, f, "base") :
        LET table == get_actual_vs_forecast_cached(df).periodic_deviation
            actual == {x \in StoredOf(f) : x.is_actual}
            planned == {x \in StoredOf(f) : ~x.is_actual}
        IN  /\ Len(table) = Cardinality(QuartersOf(StoredOf(f)))
            /\ {table[k].period : k \in 1..Len(table)} = QuartersOf(StoredOf(f))
            /\ \A k \in 1..Len(table) :
                  /\ table[k].period \notin QuartersOf(actual) => table[k].net_actual = 0
                  /\ table[k].period \notin QuartersOf(planned) => table[k].net_forecast = 0

-----------------------------------------------------------------------------
(* Funding gap and cash reserve: cashflow_queries.py *)

\* the filter left out: actual rows stay in
PlannedRows_with_actuals(df) == df

\* df[df['is_actual'] == False]
PlannedRows(df) == SelectSeq(df, LAMBDA r : ~r.is_actual)

RECURSIVE RunningNeed(_, _)
\* grouped['net_funding_need'].cumsum() up to row k
RunningNeed(grouped, k) ==
    IF k = 0 THEN 0 ELSE grouped[k].net_funding_need + RunningNeed(grouped, k - 1)

get_funding_gap_cached(multi_df, period) ==
    LET valid == SignedBase(DropNa(PlannedRows(multi_df)))
        ps == SortAsc({PeriodLabel(valid[i].date, period) : i \in 1..Len(valid)})
        grouped ==
          [k \in 1..Len(ps) |->
              LET I == {i \in 1..Len(valid) : PeriodLabel(valid[i].date, period) = ps[k]}
                  calls == SumAmountIdx(valid, I, OUTFLOW_TYPES)
                  dists == SumAmountIdx(valid, I, INFLOW_TYPES)
              IN  [period_label |-> ps[k], expected_calls |-> calls,
                   expected_distributions |-> dists, net_funding_need |-> dists - calls]]
    IN  [k \in 1..Len(ps) |->
            [period_label |-> grouped[k].period_label,
             expected_calls |-> grouped[k].expected_calls,
             expected_distributions |-> grouped[k].expected_distributions,
             net_funding_need |-> grouped[k].net_funding_need,
             cumulative_funding_need |-> RunningNeed(grouped, k)]]

\* the simulated account starts at zero
Balance_no_start(start_balance, running) == running

\* start_balance + daily['net'].cumsum()
Balance(start_balance, running) == start_balance + running

RECURSIVE RunningNet(_, _)
\* daily['net'].cumsum() up to row k
RunningNet(daily, k) ==
    IF k = 0 THEN 0 ELSE daily[k].net + RunningNet(daily, k - 1)

get_cash_reserve_simulation_cached(multi_df, start_balance, include_actuals) ==
    LET kept == IF include_actuals THEN DropNa(multi_df) ELSE PlannedRows(DropNa(multi_df))
        valid == SignedBase(kept)
        ds == SortAsc({valid[i].date : i \in 1..Len(valid)})
        daily ==
          [k \in 1..Len(ds) |->
              LET I == {i \in 1..Len(valid) : valid[i].date = ds[k]}
                  inflow == SumAmountIdx(valid, I, INFLOW_TYPES)
                  outflow == SumAmountIdx(valid, I, OUTFLOW_TYPES)
              IN  [date |-> ds[k], inflow |-> inflow, outflow |-> outflow,
                   net |-> inflow - outflow]]
    IN  [k \in 1..Len(ds) |->
            [date |-> daily[k].date, inflow |-> daily[k].inflow,
             outflow |-> daily[k].outflow, net |-> daily[k].net,
             balance |-> Balance(start_balance, RunningNet(daily, k))]]

\* opening balances of the simulation, in thousandths of the base currency
StartBalances == {0, 500000}

Periods == {"quarter", "year"}

\* the planned events of the funds that have a rate to the base currency
PlannedConverted(fund_ids, base) == {x \in Converted(fund_ids, base) : ~x.is_actual}

\* inflows minus outflows of the events S
NetFlow(S) == SumAmounts(Inflows(S)) - SumAmounts(Outflows(S))

\* C19: the funding gap is computed from the planned events convertible to
\* the base currency alone: one row per period holding such an event, with
\* the planned calls and the planned distributions of the period,
\* net_funding_need = planned distributions - planned calls, and
\* cumulative_funding_need the running sum of net_funding_need in
\* chronological order of the periods.
C19_FundingGap ==
    \A fund_ids \in FundIdLists : \A base \in Currencies : \A period \in Periods :
      \A multi_df \in get_cashflows_multi_fund_base_currency_cached(
                          cashflows, rates, fund_ids, base, "base") :
        LET gap == get_funding_gap_cached(multi_df, period)
            P == PlannedConverted(fund_ids, base)
        IN  /\ {gap[k].period_label : k \in 1..Len(gap)}
                  = {PeriodLabel(x.date, period) : x \in P}
            /\ \A k \in 1..Len(gap) :
                  LET G == {x \in P : PeriodLabel(x.date, period) = gap[k].period_label}
                      H == {x \in P : PeriodLabel(x.date, period) <= gap[k].period_label}
                  IN  /\ gap[k].expected_calls = SumAmounts(Outflows(G))
                      /\ gap[k].expected_distributions = SumAmounts(Inflows(G))
                      /\ gap[k].net_funding_need
                            = gap[k].expected_distributions - gap[k].expected_calls
                      /\ gap[k].cumulative_funding_need = NetFlow(H)
                      /\ k > 1 => /\ gap[k - 1].period_label < gap[k].period_label
                                  /\ gap[k].cumulative_funding_need
                                        = gap[k - 1].cumulative_funding_need
                                            + gap[k].net_funding_need

\* fund 1 holds an actual call and planned events in two quarters: the gap has
\* the two planned quarters only, -100 then +100, running 0
C19_Witness ==
    /\ \E x \in StoredOf(1) : x.is_actual
    /\ \E multi_df \in get_cashflows_multi_fund_base_currency_cached(
                           cashflows, rates, <<1>>, "EUR", "base") :
          LET gap == get_funding_gap_cached(multi_df, "quarter")
          IN  /\ Len(gap) = 2
              /\ gap[1].period_label = 20242
              /\ gap[1].net_funding_need = 0 - 100 * RateOne
              /\ gap[2].expected_distributions = 100 * RateOne
              /\ gap[2].cumulative_funding_need = 0

\* C20: the cash reserve simulation has exactly one row per distinct date of
\* the included convertible events, in ascending order, and the balance of a
\* row is start_balance plus the inflows minus the outflows of all included
\* events dated up to it; with include_actuals false only planned events are
\* included.
C20_CashReserve ==
    \A fund_ids \in FundIdLists : \A base \in Currencies :
      \A start_balance \in StartBalances : \A include_actuals \in BOOLEAN :
        \A multi_df \in get_cashflows_multi_fund_base_currency_cached(
                            cashflows, rates, fund_ids, base, "base") :
          LET sim == get_cash_reserve_simulation_cached(
                         multi_df, start_balance, include_actuals)
              S == IF include_actuals THEN Converted(fund_ids, base)
                   ELSE PlannedConverted(fund_ids, base)
          IN  /\ Len(sim) = Cardinality({x.date : x \in S})
              /\ {sim[k].date : k \in 1..Len(sim)} = {x.date : x \in S}
              /\ \A k \in 1..Len(sim) :
                    LET G == {x \in S : x.date = sim[k].date}
                        H == {x \in S : x.date <= sim[k].date}
                    IN  /\ sim[k].inflow = SumAmounts(Inflows(G))
                        /\ sim[k].outflow = SumAmounts(Outflows(G))
                        /\ sim[k].balance = start_balance + NetFlow(H)
                        /\ k > 1 => sim[k - 1].date < sim[k].date

\* an actual call of fund 1 in February, and in May a planned fee of fund 1 and
\* a planned distribution of fund 2 (USD at 1.1) on the same day
C20_Witness ==
    \E multi_df \in get_cashflows_multi_fund_base_currency_cached(
                        cashflows, rates, <<1, 2>>, "EUR", "base") :
      LET with == get_cash_reserve_simulation_cached(multi_df, 500000, TRUE)
          without == get_cash_reserve_simulation_cached(multi_df, 500000, FALSE)
      IN  /\ Len(with) = 2
          /\ with[1].balance = 400000
          /\ with[2].inflow = 275000 /\ with[2].outflow = 100000
          /\ with[2].balance = 575000
          /\ Len(without) = 1
          /\ without[1].balance = 675000

-----------------------------------------------------------------------------
(* DPI *)

\* q is distributed / called in thousandths (rounded down), 0 when nothing is called
IsDpi(q, distributed, called) ==
    IF called > 0
      THEN q * called <= distributed * RateOne /\ distributed * RateOne < (q + 1) * called
      ELSE q = 0

\* C21: the single-fund and the portfolio summary return
\* dpi = total_distributed / total_called when total_called > 0 and 0 when
\* total_called = 0, and the computation is defined for every stored event set.
C21_Dpi ==
    /\ \A f \in FundIds :
         \A df \in get_cashflows_for_fund(cashflows, f, "base") :
           LET summary == get_cashflow_summary_cached(df)
           IN  /\ summary.total_called = SumAmounts(Outflows(StoredOf(f)))
               /\ summary.total_distributed = SumAmounts(Inflows(StoredOf(f)))
               /\ IsDpi(summary.dpi, summary.total_distributed, summary.total_called)
    /\ \A fund_ids \in FundIdLists : \A base \in Currencies :
         \A multi_df \in get_cashflows_multi_fund_base_currency_cached(
                             cashflows, rates, fund_ids, base, "base") :
           LET summary == get_portfolio_summary_cached(multi_df, fund_ids, commit, rates, base)
           IN  /\ summary.total_called = SumAmounts(Outflows(Converted(fund_ids, base)))
               /\ summary.total_distributed = SumAmounts(Inflows(Converted(fund_ids, base)))
               /\ IsDpi(summary.portfolio_dpi, summary.total_distributed,
                        summary.total_called)

\* fund 1 has 100 called and 250 distributed (dpi 2.5); fund 2 has a
\* distribution and nothing called (dpi 0)
C21_Witness ==
    /\ \E df \in get_cashflows_for_fund(cashflows, 1, "base") :
          /\ get_cashflow_summary_cached(df).total_called = 100
          /\ get_cashflow_summary_cached(df).dpi = 2500
    /\ \E df \in get_cashflows_for_fund(cashflows, 2, "base") :
          /\ get_cashflow_summary_cached(df).total_called = 0
          /\ get_cashflow_summary_cached(df).total_distributed = 250
          /\ get_cashflow_summary_cached(df).dpi = 0

-----------------------------------------------------------------------------
(* Pacing models: cashflow_forecast.py.  Amounts are in thousandths of a
   currency unit and rates in thousandths; a product of an amount and a rate
   is rounded down to the thousandth. *)

MaxLifetime == 3

VintageYear == 2024

\* amount * rate
Mul(a, r) == (a * r) \div RateOne

\* max(0.0, x): the cap left out
Clamp_floor_only(x, cap) == IF x > 0 THEN x ELSE 0

\* max(0.0, min(x, cap))
Clamp(x, cap) ==
    LET m == IF x < cap THEN x ELSE cap IN IF m > 0 THEN m ELSE 0

\* the integer square root, searched in lo..hi
ISqrt(n, lo, hi) == CHOOSE x \in lo..hi : x * x <= n /\ n < (x + 1) * (x + 1)

\* r ** 0.25 for a rate r in thousandths, 0 <= r <= 2000
Root4(r) == ISqrt(ISqrt(r * RateOne, 0, 1500) * RateOne, 0, 1300)

\* annual rates offered for growth, drawdown and distribution
AnnualRates == {0, 100, 300}

\* (1 + growth_rate) ** 0.25 - 1
GrowthQ == [g \in AnnualRates |-> Root4(RateOne + g) - RateOne]

\* 1 - (1 - rate) ** 0.25
DecayQ == [r \in AnnualRates |-> RateOne - Root4(RateOne - r)]

\* _quarter_end_dates(start_year, n)[i], i counted from 0
QuarterEnd(start_year, i) ==
    LET year == start_year + (i \div 4)
        q == (i % 4) + 1
    IN  year * 10000 + (IF q = 1 THEN 331 ELSE IF q = 2 THEN 630
                        ELSE IF q = 3 THEN 930 ELSE 1231)

\* both events appended whatever the amounts
EmitQuarter_no_threshold(vintage_year, i, call, dist) ==
    <<[date |-> QuarterEnd(vintage_year, i), type |-> "capital_call",
       amount |-> Round2(call)],
      [date |-> QuarterEnd(vintage_year, i), type |-> "distribution",
       amount |-> Round2(dist)]>>

\* the two appends at the end of each quarter of every model
EmitQuarter(vintage_year, i, call, dist) ==
    (IF call > 10
       THEN <<[date |-> QuarterEnd(vintage_year, i), type |-> "capital_call",
               amount |-> Round2(call)]>>
       ELSE <<>>)
    \o (IF dist > 10
          THEN <<[date |-> QuarterEnd(vintage_year, i), type |-> "distribution",
                  amount |-> Round2(dist)]>>
          ELSE <<>>)

RECURSIVE EmitAll(_, _, _)
\* results after the quarters 0..n-1 of the trace
EmitAll(vintage_year, trace, n) ==
    IF n = 0 THEN <<>>
    ELSE EmitAll(vintage_year, trace, n - 1)
           \o EmitQuarter(vintage_year, n - 1, trace[n].call, trace[n].dist)

\* nav = 0.0, total_called = 0.0
Start == [call |-> 0, grown |-> 0, dist |-> 0, nav |-> 0, total_called |-> 0]

\* the locals after the last of the quarters so far
LastOf(trace) == IF trace = <<>> THEN Start ELSE trace[Len(trace)]

\* one quarter of the three NAV models: the call is added, the NAV grows,
\* the distribution is taken
Quarter(prev, call, g_q, dist_of_nav(_)) ==
    LET after_growth == Mul(prev.nav + call, RateOne + g_q)
        taken == dist_of_nav(after_growth)
    IN  [call |-> call, grown |-> after_growth, dist |-> taken,
         nav |-> after_growth - taken, total_called |-> prev.total_called + call]

RECURSIVE Pow(_, _)
\* b ** k for a whole exponent k
Pow(b, k) == IF k = 0 THEN RateOne ELSE Mul(Pow(b, k - 1), b)

\* bow_raw ** bow_factor if bow_raw > 0 else 0.0, at quarter i of lifetime L
Bow(i, L, bow_factor) ==
    LET bow_raw == (RateOne * (i + 1) * (4 * L - (i + 1))) \div (4 * L * L)
    IN  IF bow_raw > 0 THEN Pow(bow_raw, bow_factor) ELSE 0

RECURSIVE TaTrace(_, _)
\* the loop of forecast_takahashi_alexander through quarter n - 1
TaTrace(p, n) ==
    IF n = 0 THEN <<>>
    ELSE LET before == TaTrace(p, n - 1)
             prev == LastOf(before)
             bow == Bow(n - 1, p.lifetime, p.bow_factor)
             unfunded == p.commitment - prev.total_called
             call == Clamp(Mul(Mul(p.rc \div 4, bow), unfunded), unfunded)
             DistOf(nav) == Clamp(Mul(Mul(p.rd \div 4, bow), nav), nav)
         IN  Append(before, Quarter(prev, call, GrowthQ[p.growth_rate], DistOf))

forecast_takahashi_alexander(p) ==
    LET trace == TaTrace(p, p.lifetime * 4)
    IN  [trace |-> trace, results |-> EmitAll(p.vintage_year, trace, Len(trace))]

RECURSIVE DlpTrace(_, _)
\* the loop of forecast_driessen_lin_phalippou through quarter n - 1
DlpTrace(p, n) ==
    IF n = 0 THEN <<>>
    ELSE LET before == DlpTrace(p, n - 1)
             prev == LastOf(before)
             unfunded == p.commitment - prev.total_called
             call == Clamp(Mul(unfunded, DecayQ[p.drawdown_rate]), unfunded)
             \* year_offset >= 3.0
             DistOf(nav) == IF n >= 12
                              THEN Clamp(Mul(nav, DecayQ[p.distribution_rate]), nav)
                              ELSE 0
         IN  Append(before, Quarter(prev, call, GrowthQ[p.nav_growth_rate], DistOf))

forecast_driessen_lin_phalippou(p) ==
    LET trace == DlpTrace(p, p.lifetime * 4)
    IN  [trace |-> trace, results |-> EmitAll(p.vintage_year, trace, Len(trace))]

\* the defaults of forecast_ljungqvist_richardson
DEFAULT_INVESTMENT_PACE == <<250, 250, 200, 150, 150>>
DEFAULT_HARVEST_PACE == <<100, 150, 200, 250, 300, 350, 400>>

RECURSIVE PadTo(_, _)
\* while len(investment_pace) < investment_period: investment_pace.append(0.0)
PadTo(pace, investment_period) ==
    IF Len(pace) < investment_period THEN PadTo(Append(pace, 0), investment_period)
    ELSE pace

\* a quarter of the NAV each quarter
Residual_quarter_share(nav, remaining_quarters) == nav \div 4

\* dist = nav / remaining_quarters
Residual(nav, remaining_quarters) == nav \div remaining_quarters

RECURSIVE LrTrace(_, _, _, _)
\* the loop of forecast_ljungqvist_richardson through quarter n - 1
LrTrace(p, investment_pace, harvest_pace, n) ==
    IF n = 0 THEN <<>>
    ELSE LET before == LrTrace(p, investment_pace, harvest_pace, n - 1)
             prev == LastOf(before)
             i == n - 1
             year_idx == i \div 4
             call == IF year_idx < Len(investment_pace)
                       THEN Clamp(Mul(p.commitment, investment_pace[year_idx + 1]) \div 4,
                                  p.commitment - prev.total_called)
                       ELSE 0
             harvest_year_idx == year_idx - p.harvest_start
             remaining_quarters == p.lifetime * 4 - i
             DistOf(nav) ==
                 IF harvest_year_idx >= 0 /\ harvest_year_idx < Len(harvest_pace)
                   THEN Clamp(Mul(nav, harvest_pace[harvest_year_idx + 1] \div 4), nav)
                 ELSE IF harvest_year_idx >= Len(harvest_pace) /\ nav > 10
                           /\ remaining_quarters > 0
                   THEN Clamp(Residual(nav, remaining_quarters), nav)
                 ELSE 0
         IN  Append(before, Quarter(prev, call, GrowthQ[p.nav_growth_rate], DistOf))

\* the list the loop pads: the caller's own list, or the fresh default
forecast_ljungqvist_richardson(p) ==
    LET investment_pace ==
            PadTo(IF p.investment_pace = Null THEN DEFAULT_INVESTMENT_PACE
                  ELSE p.investment_pace[1], p.investment_period)
        harvest_pace == IF p.harvest_pace = Null THEN DEFAULT_HARVEST_PACE
                        ELSE p.harvest_pace[1]
        trace == LrTrace(p, investment_pace, harvest_pace, p.lifetime * 4)
    IN  [trace |-> trace, results |-> EmitAll(p.vintage_year, trace, Len(trace)),
         investment_pace |-> IF p.investment_pace = Null THEN Null
                             ELSE Some(investment_pace),
         harvest_pace |-> p.harvest_pace]

\* the benchmark curves, fractions of the commitment per year
CAMBRIDGE_BENCHMARKS ==
    [strategy \in {"buyout", "venture", "growth", "infrastructure", "real_estate"} |->
        IF strategy = "buyout" THEN
          [q1 |-> [calls |-> <<200, 200, 150, 100, 80, 50, 30, 20, 10, 10>>,
                   dists |-> <<0, 20, 50, 100, 150, 180, 200, 180, 120, 80>>],
           median |-> [calls |-> <<250, 250, 180, 120, 80, 50, 30, 20, 10, 10>>,
                   dists |-> <<0, 30, 80, 140, 180, 220, 240, 220, 150, 100>>],
           q3 |-> [calls |-> <<300, 280, 200, 120, 50, 30, 10, 10, 0, 0>>,
                   dists |-> <<0, 50, 120, 200, 250, 280, 300, 280, 200, 150>>]]
        ELSE
        IF strategy = "venture" THEN
          [q1 |-> [calls |-> <<150, 200, 200, 150, 100, 80, 50, 30, 20, 20>>,
                   dists |-> <<0, 0, 20, 50, 80, 120, 150, 180, 150, 100>>],
           median |-> [calls |-> <<200, 220, 200, 150, 100, 60, 40, 20, 10, 0>>,
                   dists |-> <<0, 10, 40, 80, 120, 160, 200, 220, 180, 120>>],
           q3 |-> [calls |-> <<250, 250, 220, 130, 80, 40, 20, 10, 0, 0>>,
                   dists |-> <<0, 20, 80, 150, 200, 250, 300, 320, 250, 180>>]]
        ELSE
        IF strategy = "growth" THEN
          [q1 |-> [calls |-> <<220, 220, 180, 120, 80, 60, 40, 30, 20, 10>>,
                   dists |-> <<0, 20, 60, 100, 140, 180, 200, 180, 140, 100>>],
           median |-> [calls |-> <<250, 250, 200, 120, 80, 50, 30, 10, 10, 0>>,
                   dists |-> <<0, 30, 80, 140, 180, 220, 240, 220, 160, 120>>],
           q3 |-> [calls |-> <<300, 280, 220, 100, 50, 30, 10, 10, 0, 0>>,
                   dists |-> <<0, 50, 120, 200, 240, 280, 300, 280, 220, 160>>]]
        ELSE
        IF strategy = "infrastructure" THEN
          [q1 |-> [calls |-> <<150, 180, 180, 150, 120, 80, 50, 40, 30, 20>>,
                   dists |-> <<0, 20, 50, 80, 100, 120, 140, 140, 120, 100>>],
           median |-> [calls |-> <<200, 220, 200, 150, 100, 60, 40, 20, 10, 0>>,
                   dists |-> <<0, 30, 70, 100, 130, 160, 180, 180, 150, 120>>],
           q3 |-> [calls |-> <<250, 250, 220, 130, 80, 40, 20, 10, 0, 0>>,
                   dists |-> <<0, 50, 100, 150, 180, 220, 240, 240, 200, 160>>]]
        ELSE
          [q1 |-> [calls |-> <<180, 200, 180, 150, 100, 70, 50, 30, 20, 20>>,
                   dists |-> <<0, 30, 60, 100, 120, 150, 160, 160, 140, 100>>],
           median |-> [calls |-> <<220, 240, 200, 140, 80, 50, 40, 20, 10, 0>>,
                   dists |-> <<0, 40, 80, 120, 160, 180, 200, 200, 160, 120>>],
           q3 |-> [calls |-> <<280, 260, 220, 120, 60, 30, 20, 10, 0, 0>>,
                   dists |-> <<0, 60, 120, 180, 220, 260, 280, 260, 220, 160>>]]]

RECURSIVE SumSeq(_)
SumSeq(q) == IF q = <<>> THEN 0 ELSE Head(q) + SumSeq(Tail(q))

\* list padded with 0.0 up to the lifetime and cut to it
PadTrim(pcts, lifetime) ==
    [k \in 1..lifetime |-> IF k <= Len(pcts) THEN pcts[k] ELSE 0]

\* the distributions scaled so that they sum to total calls * tvpi_multiple
ScaleDists(call_pcts, dist_pcts, tvpi_multiple) ==
    IF SumSeq(dist_pcts) > 0 /\ SumSeq(call_pcts) > 0
      THEN [k \in 1..Len(dist_pcts) |->
              (dist_pcts[k] * Mul(SumSeq(call_pcts), tvpi_multiple)) \div SumSeq(dist_pcts)]
      ELSE dist_pcts

\* a quarter of a model without NAV: the call and the distribution as computed
Flat(call, dist) ==
    [call |-> call, grown |-> 0, dist |-> dist, nav |-> 0, total_called |-> 0]

\* strategy and percentile fall back to 'buyout' and 'median'
forecast_cambridge_quantile(p) ==
    LET benchmarks == IF p.strategy \in DOMAIN CAMBRIDGE_BENCHMARKS
                        THEN CAMBRIDGE_BENCHMARKS[p.strategy]
                        ELSE CAMBRIDGE_BENCHMARKS["buyout"]
        curves == IF p.percentile \in DOMAIN benchmarks
                    THEN benchmarks[p.percentile] ELSE benchmarks.median
        call_pcts == PadTrim(curves.calls, p.lifetime)
        dist_pcts == ScaleDists(call_pcts, PadTrim(curves.dists, p.lifetime),
                                p.tvpi_multiple)
        trace == [n \in 1..(p.lifetime * 4) |->
                    Flat(Mul(p.commitment, call_pcts[((n - 1) \div 4) + 1]) \div 4,
                         Mul(p.commitment, dist_pcts[((n - 1) \div 4) + 1]) \div 4)]
    IN  [trace |-> trace, results |-> EmitAll(p.vintage_year, trace, Len(trace))]

forecast_linear(p) ==
    LET call_quarters == p.investment_period * 4
        quarterly_call == IF call_quarters > 0 THEN p.commitment \div call_quarters ELSE 0
        harvest_quarters == (p.lifetime - p.harvest_start) * 4
        total_dist == Mul(p.commitment, p.tvpi_multiple)
        quarterly_dist == IF harvest_quarters > 0 THEN total_dist \div harvest_quarters
                          ELSE 0
        trace == [n \in 1..(p.lifetime * 4) |->
                    Flat(IF n - 1 < call_quarters THEN quarterly_call ELSE 0,
                         \* year_offset = i / 4.0 >= harvest_start
                         IF n - 1 >= 4 * p.harvest_start THEN quarterly_dist ELSE 0)]
    IN  [trace |-> trace, results |-> EmitAll(p.vintage_year, trace, Len(trace))]

RECURSIVE SumFn(_, _)
\* sum(pacing.values())
SumFn(f, D) ==
    IF D = {} THEN 0 ELSE LET k == CHOOSE x \in D : TRUE IN f[k] + SumFn(f, D \ {k})

\* max(pacing.keys()) + 1, or 0 for the empty table
YearsOf(pacing) ==
    IF DOMAIN pacing = {} THEN 0
    ELSE (CHOOSE k \in DOMAIN pacing : \A x \in DOMAIN pacing : x <= k) + 1

Max2(a, b) == IF a > b THEN a ELSE b

\* pacing.get(year_idx, 0.0)
GetOr0(pacing, year_idx) == IF year_idx \in DOMAIN pacing THEN pacing[year_idx] ELSE 0

\* the quarters of a pacing table pair applied to a commitment
PacingTrace(commitment, call_pacing, dist_pacing, dist_scale, lifetime) ==
    [n \in 1..(lifetime * 4) |->
        Flat(Mul(commitment, GetOr0(call_pacing, (n - 1) \div 4)) \div 4,
             Mul(Mul(commitment, GetOr0(dist_pacing, (n - 1) \div 4)), dist_scale) \div 4)]

\* call_pacing and dist_pacing are functions from year offsets to fractions;
\* None is the empty table
forecast_manual(p) ==
    LET call_pacing == IF p.call_pacing = Null THEN <<>> ELSE p.call_pacing[1]
        dist_pacing == IF p.dist_pacing = Null THEN <<>> ELSE p.dist_pacing[1]
        lifetime == Max2(Max2(YearsOf(call_pacing), YearsOf(dist_pacing)), 1)
        total_call_pct == SumFn(call_pacing, DOMAIN call_pacing)
        total_dist_pct == SumFn(dist_pacing, DOMAIN dist_pacing)
        dist_scale == IF total_dist_pct > 0 /\ total_call_pct > 0
                        THEN (Mul(total_call_pct, p.tvpi_multiple) * RateOne)
                               \div total_dist_pct
                        ELSE RateOne
        trace == IF DOMAIN call_pacing = {} /\ DOMAIN dist_pacing = {} THEN <<>>
                 ELSE PacingTrace(p.commitment, call_pacing, dist_pacing, dist_scale,
                                  lifetime)
    IN  [trace |-> trace, results |-> EmitAll(p.vintage_year, trace, Len(trace)),
         call_pacing |-> p.call_pacing, dist_pacing |-> p.dist_pacing]

\* call_by_year / dist_by_year: the amounts of the given types per year
\* offset from the first date, over historical_commitment
HistoricalPacing(historical_cashflows, historical_commitment, types) ==
    LET first_year == Year(CHOOSE d \in {historical_cashflows[i].date :
                                            i \in 1..Len(historical_cashflows)} :
                               \A i \in 1..Len(historical_cashflows) :
                                   d <= historical_cashflows[i].date)
        offsets == {Year(historical_cashflows[i].date) - first_year :
                       i \in {j \in 1..Len(historical_cashflows) :
                                historical_cashflows[j].type \in types}}
    IN  [yr \in offsets |->
            (SumAmountIdx(historical_cashflows,
                          {i \in 1..Len(historical_cashflows) :
                               Year(historical_cashflows[i].date) - first_year = yr},
                          types) * RateOne) \div historical_commitment]

\* not historical_cashflows or not historical_commitment; historical_commitment <= 0
forecast_historical_average(p) ==
    LET usable == /\ p.historical_cashflows # Null
                  /\ p.historical_cashflows[1] # <<>>
                  /\ p.historical_commitment # Null
                  /\ p.historical_commitment[1] > 0
        call_pacing == HistoricalPacing(p.historical_cashflows[1],
                                        p.historical_commitment[1], OUTFLOW_TYPES)
        dist_pacing == HistoricalPacing(p.historical_cashflows[1],
                                        p.historical_commitment[1], INFLOW_TYPES)
        actual_lifetime == Max2(Max2(YearsOf(call_pacing), YearsOf(dist_pacing)),
                                p.lifetime)
        trace == IF ~usable THEN <<>>
                 ELSE IF DOMAIN call_pacing = {} /\ DOMAIN dist_pacing = {} THEN <<>>
                 ELSE PacingTrace(p.commitment, call_pacing, dist_pacing, RateOne,
                                  actual_lifetime)
    IN  [trace |-> trace, results |-> EmitAll(p.vintage_year, trace, Len(trace)),
         historical_cashflows |-> p.historical_cashflows]

-----------------------------------------------------------------------------
(* Calls of the pacing models *)

\* -1000.00, 0, 0.10 and 1000.00
Commitments == {0 - 1000000, 0, 100, 1000000}

Lifetimes == 0..MaxLifetime

\* rc, rd, bow_factor, growth_rate
TaParams ==
    {[rc |-> 250, rd |-> 200, bow_factor |-> 2, growth_rate |-> 100],
     [rc |-> 6000, rd |-> 200, bow_factor |-> 1, growth_rate |-> 0],
     [rc |-> 250, rd |-> 6000, bow_factor |-> 2, growth_rate |-> 100],
     [rc |-> 6000, rd |-> 6000, bow_factor |-> 1, growth_rate |-> 300]}

DlpParams ==
    {[drawdown_rate |-> 300, distribution_rate |-> 300, nav_growth_rate |-> 100],
     [drawdown_rate |-> 100, distribution_rate |-> 0, nav_growth_rate |-> 0],
     [drawdown_rate |-> 0, distribution_rate |-> 300, nav_growth_rate |-> 300]}

\* investment_period with investment_pace, harvest_start with harvest_pace
LrParams ==
    {[investment_period |-> a[1], investment_pace |-> a[2], harvest_start |-> b[1],
      harvest_pace |-> b[2], nav_growth_rate |-> 100] :
        a \in {<<1, Null>>, <<1, Some(<<500>>)>>, <<2, Some(<<500>>)>>,
               <<2, Some(<<600, 600>>)>>},
        b \in {<<0, Null>>, <<1, Some(<<400>>)>>, <<0, Some(<<8000>>)>>,
               <<1, Some(<<>>)>>}}

CambridgeParams ==
    {[strategy |-> st, percentile |-> pc, tvpi_multiple |-> 1500] :
        st \in {"buyout", "venture", "other"}, pc \in {"median", "q3"}}

LinearParams ==
    {[investment_period |-> ip, harvest_start |-> hs, tvpi_multiple |-> 1500] :
        ip \in {1, 2}, hs \in {0, 1, 2}}

CallPacings == {Null, Some(<<>>), Some([yr \in {0, 1} |-> 500])}
DistPacings == {Null, Some(<<>>), Some([yr \in {1, 2} |-> 300])}

ManualParams ==
    {[call_pacing |-> cp, dist_pacing |-> dp, tvpi_multiple |-> 1500] :
        cp \in CallPacings, dp \in DistPacings}

\* the events of a source fund as the forecast section passes them
HistoricalCashflows ==
    {Null, Some(<<>>),
     Some(<<EventRow(2, 20231215, "capital_call", 100, TRUE),
            EventRow(2, 20240515, "distribution", 250, FALSE)>>)}

HistoricalParams ==
    {[historical_cashflows |-> h, historical_commitment |-> c] :
        h \in HistoricalCashflows, c \in {Null, Some(0), Some(0 - 100), Some(250)}}

\* a pacing function touches nothing but what it returns to its caller
PacingFrame ==
    /\ UNCHANGED <<cashflows, scenarios, saving, written>>
    /\ UNCHANGED <<pipelineVars, writerVars, fxVars>>

\* the arguments of a call of forecast_takahashi_alexander
TaArgs(c, L, q) ==
    [commitment |-> c, lifetime |-> L, vintage_year |-> VintageYear,
     rc |-> q.rc,
     rd |-> q.rd,
     bow_factor |-> q.bow_factor,
     growth_rate |-> q.growth_rate]

call_takahashi_alexander(c, L, q) ==
    /\ ret' = [op |-> "forecast_takahashi_alexander", args |-> TaArgs(c, L, q),
               out |-> forecast_takahashi_alexander(TaArgs(c, L, q))]
    /\ PacingFrame

\* the arguments of a call of forecast_driessen_lin_phalippou
DlpArgs(c, L, q) ==
    [commitment |-> c, lifetime |-> L, vintage_year |-> VintageYear,
     drawdown_rate |-> q.drawdown_rate,
     distribution_rate |-> q.distribution_rate,
     nav_growth_rate |-> q.nav_growth_rate]

call_driessen_lin_phalippou(c, L, q) ==
    /\ ret' = [op |-> "forecast_driessen_lin_phalippou", args |-> DlpArgs(c, L, q),
               out |-> forecast_driessen_lin_phalippou(DlpArgs(c, L, q))]
    /\ PacingFrame

\* the arguments of a call of forecast_ljungqvist_richardson
LrArgs(c, L, q) ==
    [commitment |-> c, lifetime |-> L, vintage_year |-> VintageYear,
     investment_period |-> q.investment_period,
     investment_pace |-> q.investment_pace,
     harvest_start |-> q.harvest_start,
     harvest_pace |-> q.harvest_pace,
     nav_growth_rate |-> q.nav_growth_rate]

call_ljungqvist_richardson(c, L, q) ==
    /\ ret' = [op |-> "forecast_ljungqvist_richardson", args |-> LrArgs(c, L, q),
               out |-> forecast_ljungqvist_richardson(LrArgs(c, L, q))]
    /\ PacingFrame

\* the arguments of a call of forecast_cambridge_quantile
CambridgeArgs(c, L, q) ==
    [commitment |-> c, lifetime |-> L, vintage_year |-> VintageYear,
     strategy |-> q.strategy,
     percentile |-> q.percentile,
     tvpi_multiple |-> q.tvpi_multiple]

call_cambridge_quantile(c, L, q) ==
    /\ ret' = [op |-> "forecast_cambridge_quantile", args |-> CambridgeArgs(c, L, q),
               out |-> forecast_cambridge_quantile(CambridgeArgs(c, L, q))]
    /\ PacingFrame

\* the arguments of a call of forecast_linear
LinearArgs(c, L, q) ==
    [commitment |-> c, lifetime |-> L, vintage_year |-> VintageYear,
     investment_period |-> q.investment_period,
     harvest_start |-> q.harvest_start,
     tvpi_multiple |-> q.tvpi_multiple]

call_linear(c, L, q) ==
    /\ ret' = [op |-> "forecast_linear", args |-> LinearArgs(c, L, q),
               out |-> forecast_linear(LinearArgs(c, L, q))]
    /\ PacingFrame

\* the arguments of a call of forecast_manual
ManualArgs(c, q) ==
    [commitment |-> c, vintage_year |-> VintageYear,
     call_pacing |-> q.call_pacing,
     dist_pacing |-> q.dist_pacing,
     tvpi_multiple |-> q.tvpi_multiple]

call_manual(c, q) ==
    /\ ret' = [op |-> "forecast_manual", args |-> ManualArgs(c, q),
               out |-> forecast_manual(ManualArgs(c, q))]
    /\ PacingFrame

\* the arguments of a call of forecast_historical_average
HistoricalArgs(c, L, q) ==
    [commitment |-> c, lifetime |-> L, vintage_year |-> VintageYear,
     historical_cashflows |-> q.historical_cashflows,
     historical_commitment |-> q.historical_commitment]

call_historical_average(c, L, q) ==
    /\ ret' = [op |-> "forecast_historical_average", args |-> HistoricalArgs(c, L, q),
               out |-> forecast_historical_average(HistoricalArgs(c, L, q))]
    /\ PacingFrame

NextPacing ==
    \/ \E c \in Commitments, L \in Lifetimes, q \in TaParams :
          call_takahashi_alexander(c, L, q)
    \/ \E c \in Commitments \ {100}, L \in {1, MaxLifetime}, q \in DlpParams :
          call_driessen_lin_phalippou(c, L, q)
    \/ \E c \in Commitments \ {100}, L \in {1, MaxLifetime}, q \in LrParams :
          call_ljungqvist_richardson(c, L, q)
    \/ \E c \in Commitments \ {100}, L \in {1, MaxLifetime}, q \in CambridgeParams :
          call_cambridge_quantile(c, L, q)
    \/ \E c \in Commitments, L \in Lifetimes, q \in LinearParams :
          call_linear(c, L, q)
    \/ \E c \in Commitments, q \in ManualParams : call_manual(c, q)
    \/ \E c \in Commitments \ {100}, L \in {1, MaxLifetime}, q \in HistoricalParams :
          call_historical_average(c, L, q)

SpecPacing == Init /\ [][NextPacing]_vars

PacingOps ==
    {"forecast_takahashi_alexander", "forecast_driessen_lin_phalippou",
     "forecast_ljungqvist_richardson", "forecast_cambridge_quantile",
     "forecast_linear", "forecast_manual", "forecast_historical_average"}

\* C22: each of the seven pacing models returns the empty list for every
\* commitment <= 0; Historical Average also returns it when the historical
\* cashflows are missing or empty or the historical commitment is missing or
\* <= 0, and Manual Pacing when both pacing tables are empty.
C22_EmptyResult ==
    ret.op \in PacingOps =>
      /\ ret.args.commitment <= 0 => ret.out.results = <<>>
      /\ (/\ ret.op = "forecast_historical_average"
          /\ \/ ret.args.historical_cashflows \in {Null, Some(<<>>)}
             \/ ret.args.historical_commitment = Null
             \/ ret.args.historical_commitment[1] <= 0) => ret.out.results = <<>>
      /\ (/\ ret.op = "forecast_manual"
          /\ ret.args.call_pacing \in {Null, Some(<<>>)}
          /\ ret.args.dist_pacing \in {Null, Some(<<>>)}) => ret.out.results = <<>>

\* a Takahashi-Alexander call with a negative commitment over three years came
\* back empty although the same model emits events for a positive commitment
C22_Witness ==
    /\ ret.op = "forecast_takahashi_alexander"
    /\ ret.args.commitment < 0
    /\ ret.args.lifetime = 3
    /\ ret.out.results = <<>>
    /\ forecast_takahashi_alexander([ret.args EXCEPT !.commitment = 1000000]).results # <<>>

NavOps ==
    {"forecast_takahashi_alexander", "forecast_driessen_lin_phalippou",
     "forecast_ljungqvist_richardson"}

\* the quarterly growth factor of the call in ret
GrowthOf(call) ==
    IF call.op = "forecast_takahashi_alexander" THEN GrowthQ[call.args.growth_rate]
    ELSE GrowthQ[call.args.nav_growth_rate]

\* C23: in the Takahashi-Alexander, Driessen-Lin-Phalippou and
\* Ljungqvist-Richardson models, for every commitment >= 0, after every
\* quarter the cumulative amount called lies between 0 and the commitment and
\* the NAV is not negative; in each quarter the call is added first, then the
\* NAV grows, then the distribution (at most the grown NAV) is taken.
C23_CalledAndNavBounded ==
    (ret.op \in NavOps /\ ret.args.commitment >= 0) =>
      \A k \in 1..Len(ret.out.trace) :
        LET now == ret.out.trace[k]
            prev == IF k = 1 THEN Start ELSE ret.out.trace[k - 1]
        IN  /\ 0 <= now.total_called /\ now.total_called <= ret.args.commitment
            /\ now.nav >= 0
            /\ now.call >= 0
            /\ now.total_called = prev.total_called + now.call
            /\ now.grown = Mul(prev.nav + now.call, RateOne + GrowthOf(ret))
            /\ 0 <= now.dist /\ now.dist <= now.grown
            /\ now.nav = now.grown - now.dist

\* a Ljungqvist-Richardson call whose pace asks for 120% of the commitment:
\* the last call was cut, everything is called and NAV is outstanding
C23_Witness ==
    /\ ret.op = "forecast_ljungqvist_richardson"
    /\ ret.args.commitment = 1000000
    /\ ret.args.investment_pace = Some(<<600, 600>>)
    /\ ret.args.lifetime = MaxLifetime
    /\ LastOf(ret.out.trace).total_called = 1000000
    /\ \E k \in 1..Len(ret.out.trace) :
          /\ ret.out.trace[k].call > 0
          /\ ret.out.trace[k].call < 150000
          /\ ret.out.trace[k].nav > 0
          /\ ret.out.trace[k].dist > 0

\* the events of one type in a forecast
OfType(results, type) == SelectSeq(results, LAMBDA e : e.type = type)

\* the total of the amounts of a forecast's events
Total(results) == SumSeq([k \in 1..Len(results) |-> results[k].amount])

Abs(x) == IF x < 0 THEN 0 - x ELSE x

\* what n events can be off by: half a cent of rounding each, and the
\* thousandth the quotient is cut to
Rounding(n) == n * 6

\* C24: for every commitment > 0, lifetime >= 1, investment_period >= 1 and
\* 0 <= harvest_start < lifetime, forecast_linear emits equal quarterly calls
\* of commitment / (4 * investment_period) whose total is the commitment, and
\* equal distributions in every quarter from year offset harvest_start to the
\* end of the lifetime whose total is commitment * tvpi_multiple, both up to
\* the rounding of each event to two decimals.
C24_LinearTotals ==
    (/\ ret.op = "forecast_linear"
     /\ ret.args.commitment > 0
     /\ ret.args.lifetime >= 1
     /\ ret.args.investment_period >= 1
     /\ 0 <= ret.args.harvest_start
     /\ ret.args.harvest_start < ret.args.lifetime) =>
      LET calls == OfType(ret.out.results, "capital_call")
          dists == OfType(ret.out.results, "distribution")
          call_quarters == 4 * ret.args.investment_period
          harvest_quarters == 4 * (ret.args.lifetime - ret.args.harvest_start)
      IN  /\ \A k \in 1..Len(calls) :
                calls[k].amount = Round2(ret.args.commitment \div call_quarters)
          /\ Abs(Total(calls) - ret.args.commitment) <= Rounding(call_quarters)
          /\ Len(dists) = harvest_quarters
          /\ \A k \in 1..Len(dists) :
                /\ dists[k].amount = dists[1].amount
                /\ dists[k].date
                      = QuarterEnd(ret.args.vintage_year, 4 * ret.args.harvest_start + k - 1)
          /\ Abs(Total(dists) - Mul(ret.args.commitment, ret.args.tvpi_multiple))
                <= Rounding(harvest_quarters)

\* the harvest table the call in ret runs with
HarvestPaceOf(call) ==
    IF call.args.harvest_pace = Null THEN DEFAULT_HARVEST_PACE
    ELSE call.args.harvest_pace[1]

\* C25: in the Ljungqvist-Richardson model, when the harvest table ends
\* before the lifetime (harvest_start + len(harvest_pace) < lifetime), each
\* later quarter with NAV outstanding distributes NAV / (quarters remaining,
\* the current one included), and the NAV after the last quarter is at most 0.01.
C25_ResidualLiquidation ==
    (/\ ret.op = "forecast_ljungqvist_richardson"
     /\ ret.args.harvest_start + Len(HarvestPaceOf(ret)) < ret.args.lifetime) =>
      /\ \A k \in 1..Len(ret.out.trace) :
            (/\ (k - 1) \div 4 >= ret.args.harvest_start + Len(HarvestPaceOf(ret))
             /\ ret.out.trace[k].grown > 10) =>
               /\ ret.out.trace[k].dist * (ret.args.lifetime * 4 - (k - 1))
                     <= ret.out.trace[k].grown
               /\ ret.out.trace[k].grown
                     < (ret.out.trace[k].dist + 1) * (ret.args.lifetime * 4 - (k - 1))
      /\ Len(ret.out.trace) = ret.args.lifetime * 4
      /\ LastOf(ret.out.trace).nav <= 10

\* a one-year harvest table from year 1 in a three-year fund: year 2 is
\* liquidated in parts, and the last quarter pays out all that is left
C25_Witness ==
    /\ ret.op = "forecast_ljungqvist_richardson"
    /\ ret.args.commitment = 1000000
    /\ ret.args.lifetime = 3
    /\ ret.args.harvest_start = 1
    /\ ret.args.harvest_pace = Some(<<400>>)
    /\ ret.out.trace[9].dist > 10
    /\ ret.out.trace[9].nav > ret.out.trace[9].dist
    /\ ret.out.trace[12].dist = ret.out.trace[12].grown
    /\ ret.out.trace[12].dist > 10
    /\ ret.out.trace[12].nav = 0

\* --------------------------------------------------------------------
\* Arguments after the call

\* the pacing tables a model takes, as the caller holds them before the call
TablesBefore(call) ==
    IF call.op = "forecast_ljungqvist_richardson"
      THEN <<call.args.investment_pace, call.args.harvest_pace>>
    ELSE IF call.op = "forecast_manual"
      THEN <<call.args.call_pacing, call.args.dist_pacing>>
    ELSE IF call.op = "forecast_historical_average"
      THEN <<call.args.historical_cashflows>>
    ELSE <<>>

\* the same tables, as the caller holds them after the call
TablesAfter(call) ==
    IF call.op = "forecast_ljungqvist_richardson"
      THEN <<call.out.investment_pace, call.out.harvest_pace>>
    ELSE IF call.op = "forecast_manual"
      THEN <<call.out.call_pacing, call.out.dist_pacing>>
    ELSE IF call.op = "forecast_historical_average"
      THEN <<call.out.historical_cashflows>>
    ELSE <<>>

\* the second call of a model with the same argument objects: the tables
\* are the ones the first call left behind
Again(call) ==
    IF call.op = "forecast_ljungqvist_richardson"
      THEN forecast_ljungqvist_richardson(
               [call.args EXCEPT !.investment_pace = call.out.investment_pace]).results
    ELSE IF call.op = "forecast_manual"
      THEN forecast_manual(call.args).results
    ELSE IF call.op = "forecast_historical_average"
      THEN forecast_historical_average(call.args).results
    ELSE call.out.results

\* C26: no pacing function modifies its arguments: after any call the
\* caller's pacing tables (investment_pace, harvest_pace, call_pacing,
\* dist_pacing, historical_cashflows) are what they were before it, and a
\* second call with the same arguments returns the same events.
C26_ArgumentsUnchanged ==
    ret.op \in PacingOps =>
      /\ TablesAfter(ret) = TablesBefore(ret)
      /\ Again(ret) = ret.out.results

\* --------------------------------------------------------------------
\* Actual events across a forecast save

\* the is_actual = TRUE events of one fund and scenario
Actuals(table, f, sc) ==
    {x \in table : x.fund_id = f /\ x.scenario_name = sc /\ x.is_actual}

\* C27: saving a forecast never changes or removes an is_actual = TRUE event
\* of that fund and scenario: neither the deletion of the planned events nor
\* the insertion of the new forecast touches an actual event, also when the
\* forecast has an entry with the date and type of an actual event.
C27_SaveKeepsActuals ==
    [][/\ (saving = Null /\ saving' # Null) =>
             Actuals(cashflows', saving'[1].fund, saving'[1].scenario)
                = Actuals(cashflows, saving'[1].fund, saving'[1].scenario)
       /\ (saving # Null /\ saving' = Null) =>
             Actuals(cashflows', saving[1].fund, saving[1].scenario)
                = Actuals(cashflows, saving[1].fund, saving[1].scenario)]_vars

-----------------------------------------------------------------------------
(* Two sessions in change_fund_status at the same time: each holds its own  *)
(* pooled connection (database.py, get_connection), so each call is its own *)
(* transaction; a plain SELECT takes no lock and sees committed rows only,  *)
(* an UPDATE waits while another open transaction has updated the row.      *)

\* the funds row another session has updated and not yet committed
FundLockedByOther(w, f) ==
    \E v \in Writers \ {w} : wpc[v] = "locked" /\ wrow[v][1].fund_id = f

\* SELECT status FROM funds; old_status = row[0] or 'active'; the check
\* against VALID_TRANSITIONS, which raises ValueError before any write
cfs_select(w, f, new, by, reason) ==
    /\ wpc[w] = "idle"
    /\ f \in funds
    /\ wrow' = [wrow EXCEPT ![w] = Some([fund_id |-> f, new_status |-> new,
                                          old_status |-> OldStatus(f),
                                          changed_by |-> by, change_reason |-> reason])]
    /\ wpc' = [wpc EXCEPT ![w] = IF new \in ValidNext(OldStatus(f)) THEN "validated"
                                  ELSE "ValueError"]
    /\ UNCHANGED commits
    /\ UNCHANGED <<pipelineVars, storeVars>>
    /\ UNCHANGED fxVars

\* UPDATE funds SET status = new WHERE fund_id = f and the INSERT INTO
\* fund_status_history with the old_status read before, both uncommitted
cfs_update(w) ==
    /\ wpc[w] = "validated"
    /\ ~FundLockedByOther(w, wrow[w][1].fund_id)
    /\ wpc' = [wpc EXCEPT ![w] = "locked"]
    /\ UNCHANGED <<wrow, commits>>
    /\ UNCHANGED <<pipelineVars, storeVars>>
    /\ UNCHANGED fxVars

\* conn.commit(): the two statements take effect on the committed tables
cfs_commit(w) ==
    /\ wpc[w] = "locked"
    /\ wpc' = [wpc EXCEPT ![w] = "done"]
    /\ LET c == wrow[w][1]
       IN  /\ StatusWrite(c.fund_id, c.old_status, c.new_status, c.changed_by,
                          c.change_reason)
           /\ last' = Call("change_fund_status", c.fund_id, c.new_status, "ok")
    /\ commits' = Append(commits, w)
    /\ UNCHANGED wrow
    /\ UNCHANGED <<funds, commit, meta, pending>>
    /\ UNCHANGED storeVars
    /\ UNCHANGED fxVars

\* what happened before the two sessions start
created_before(probability) ==
    /\ \A w \in Writers : wpc[w] = "idle"
    /\ create_pipeline_fund(probability)

changed_before(f, new) ==
    /\ \A w \in Writers : wpc[w] = "idle"
    /\ change_fund_status(f, new, "system", NoReason)

NextRace ==
    \/ \E p \in Probabilities : created_before(p)
    \/ \E f \in FundIds, s \in ALL_STATUSES : changed_before(f, s)
    \/ \E w \in Writers, f \in FundIds, s \in ALL_STATUSES :
          cfs_select(w, f, s, "system", NoReason)
    \/ \E w \in Writers : cfs_update(w)
    \/ \E w \in Writers : cfs_commit(w)

SpecRace == Init /\ [][NextRace]_vars

\* C28: under any interleaving of concurrent change_fund_status calls on one
\* fund, every committed status update is a transition VALID_TRANSITIONS
\* allows from the status the fund held immediately before the update, and
\* the old_status of its history row is that status; so two transitions
\* validated against the same old status never both take effect, and no
\* interleaving moves a fund out of closed or declined.
C28_CommittedTransitionsValid ==
    [][commits' # commits =>
          \A f \in funds :
              Len(history'[f]) > Len(history[f]) =>
                 /\ status'[f] \in ValidNext(OldStatus(f))
                 /\ history'[f][Len(history'[f])].old_status = OldStatus(f)
                 /\ history'[f][Len(history'[f])].new_status = status'[f]]_vars

-----------------------------------------------------------------------------
(* Guarded transitions only: the pipeline board and promote_fund /          *)
(* decline_fund, which all go through change_fund_status                    *)

MaxTransitions == 8

\* change_fund_status on a fund whose history has room for one more row
guarded_change_fund_status(f, new, by, reason) ==
    /\ pending = Null
    /\ f \in funds
    /\ Len(history[f]) < MaxTransitions
    /\ IF CanChange(f, new)
         THEN /\ StatusWrite(f, OldStatus(f), new, by, reason)
              /\ last' = Call("change_fund_status", f, new, "ok")
         ELSE /\ UNCHANGED <<status, history>>
              /\ last' = Call("change_fund_status", f, new, "ValueError")
    /\ UNCHANGED <<funds, commit, meta, pending>>
    /\ UNCHANGED <<storeVars, writerVars>>
    /\ UNCHANGED fxVars

NextGuarded ==
    \/ \E p \in Probabilities : create_pipeline_fund(p)
    \/ \E f \in FundIds, s \in ALL_STATUSES :
          guarded_change_fund_status(f, s, "system", NoReason)

SpecGuarded == Init /\ [][NextGuarded]_vars

\* a guarded transition that succeeds
Advance ==
    \E f \in FundIds, s \in ALL_STATUSES :
        CanChange(f, s) /\ guarded_change_fund_status(f, s, "system", NoReason)

\* transitions are applied as long as one can succeed
SpecGuardedFair == SpecGuarded /\ WF_vars(Advance)

\* the statuses a fund has held, in order: the one it started from and the
\* new_status of every guarded transition
StatusPath(f) ==
    IF history[f] = <<>> THEN <<OldStatus(f)>>
    ELSE (IF history[f][1].old_status = NULL THEN <<>> ELSE <<history[f][1].old_status>>)
         \o [i \in 1..Len(history[f]) |-> history[f][i].new_status]

\* no guarded transition of an existing fund can succeed
Stopped == \A f \in funds : \A s \in ALL_STATUSES : ~CanChange(f, s)

-----------------------------------------------------------------------------
(* Every way an event reaches the store: cashflow_ui.py (entry form, Excel  *)
(* import, scenario section), cashflow_forecast_ui.py (forecast save)       *)

\* the rows of an import sheet that pass the checks of the loop: a known
\* fund name, a known type label, an amount above 0; column 6 is the
\* scenario, any text, 'base' when the cell is empty
ImportRows == {[Row0 EXCEPT !.scenario_name = sc] : sc \in ScenarioInputs}

ImportSheets == SeqsUpTo(ImportRows, MaxBulk)

\* the import button: bulk_insert_cashflows when a row is left, else a warning
excel_import(cashflows_list) ==
    IF cashflows_list # <<>>
      THEN bulk_insert_cashflows(cashflows_list)
      ELSE /\ saving = Null
           /\ ret' = [op |-> "excel_import", list |-> cashflows_list, count |-> 0,
                      result |-> "warning"]
           /\ UNCHANGED <<cashflows, scenarios, saving, written>>
           /\ UNCHANGED <<pipelineVars, writerVars>>
           /\ UNCHANGED fxVars

NextEvents ==
    \/ \E r \in ScenarioRows : manual_entry(r)
    \/ \E sheet \in ImportSheets : excel_import(sheet)
    \/ \E sc \in ScenarioNames : \E fc \in {x \in Forecasts : Len(x) = 1} :
          save_forecast_delete(1, sc, fc, "Linear")
    \/ save_forecast_insert
    \/ save_forecast_fails
    \/ \E name \in ScenarioInputs : insert_scenario(name)
    \/ \E sc \in ScenarioInputs : delete_scenario_button(sc)
    \/ \E f \in StoreFunds : \E sc \in ScenarioInputs : delete_all_scenario_cashflows(f, sc)

SpecEvents == Init /\ [][NextEvents]_vars

\* C30: after any sequence of manual entries, forecast saves, bulk imports
\* and scenario creations and deletions, the scenario_name of every stored
\* cashflow event is the name of a scenario in the scenarios table.
C30_EventsInKnownScenario ==
    \A x \in cashflows : x.scenario_name \in scenarios

====
